---- MODULE Spec2Model ----
(***************************************************************************)
(* Data-Policy-Agent: the compliance scanner (src/database/scanner.py),    *)
(* the violation engine (src/detection/violation_engine.py) and the agent  *)
(* that drives them (src/core/agent.py) and the review entry points        *)
(* (src/review/workflow.py, src/api/routes.py), as a state machine.        *)
(*                                                                         *)
(* Python dicts are records: a key the dict does not carry is a field the  *)
(* record does not have, and d.get(k, default) is get(d, k, default).      *)
(* Python's None is the string None for scalar fields and NoColumns for    *)
(* the one list-valued field (columns).  Risk scores are kept in           *)
(* hundredths (round(x, 2) * 100), risk multipliers in tenths.             *)
(***************************************************************************)
EXTENDS Integers, Sequences, FiniteSets, TLC

VARIABLES
    \* ---- ViolationEngine / detect ----
    detected_violations,  \* ViolationEngine.detected_violations
    uuid_count,           \* number of uuid4 values drawn so far
    scan_results,         \* the scan result handed to detect
    rules,                \* the rule list (agent.rules / the rules argument)
    returned,             \* the list the last detect call returned
    detect_log,           \* the detect calls made: scan result given, uuids drawn before
    clock,                \* utcnow(), in whole seconds
    \* ---- pure scoring functions ----
    score_in,             \* inputs of _determine_severity/_calculate_risk_score
    score_out,            \* their results
    \* ---- DataPolicyAgent / DatabaseScanner ----
    db_connector,         \* agent.db_connector: None or the store its config names
    db_scanner,           \* agent.db_scanner: None or the store its connector is on
    last_connect,         \* what the last connect_database returned
    scan_history,         \* DatabaseScanner.scan_history
    violations,           \* agent.violations
    agent_pc,             \* position of scan_for_violations
    agent_call,           \* arguments of the running scan_for_violations
    scan_run,             \* the running DatabaseScanner.scan call: position and locals
    database,             \* the store behind the connector: dialect, tables, columns
    checked,              \* log of the (table, rule) pairs checked by the running scan
    match_in,             \* inputs of _find_applicable_columns
    match_out,            \* its result
    \* ---- ReviewWorkflow and the review entry points ----
    review_workflow,      \* agent.review_workflow: its reviews and review_history
    review_call,          \* the last review call: what it raised
    \* ---- concurrent scan calls ----
    tasks,                \* the other scan calls made on the scanner: the locals and
                          \* the check log of each, awaiting or finished
    \* ---- ApprovalManager ----
    approvals,            \* ApprovalManager.approvals, by approval id
    approval_call         \* the last ApprovalManager call: what it raised

vars == <<detected_violations, uuid_count, scan_results, rules, returned,
          detect_log, clock, score_in, score_out, db_connector, db_scanner,
          last_connect, scan_history, violations, agent_pc, agent_call, scan_run,
          database, checked, match_in, match_out, review_workflow, review_call,
          tasks, approvals, approval_call>>

engine_vars == <<detected_violations, uuid_count, scan_results, rules, returned,
                 detect_log, clock>>
score_vars == <<score_in, score_out>>
agent_vars == <<db_connector, db_scanner, last_connect, scan_history, violations,
                agent_pc, agent_call, scan_run, database, checked>>
match_vars == <<match_in, match_out>>
review_vars == <<review_workflow, review_call>>
task_vars == <<tasks>>
approval_vars == <<approvals, approval_call>>

-----------------------------------------------------------------------------
(* Python values *)

None == "None"
NoColumns == <<None>>
EmptyDict == <<>>

\* dict.get(k, default)
get(d, k, default) == IF k \in DOMAIN d THEN d[k] ELSE default

\* truthiness of a str-or-None value
Truthy(x) == x \notin {None, ""}

\* `p in s` for strings
Contains(p, s) ==
    \E i \in 1..(Len(s) - Len(p) + 1) : SubSeq(s, i, i + Len(p) - 1) = p

\* str.lower(), one character
LowerChar(c) ==
    LET upper == "ABCDEFGHIJKLMNOPQRSTUVWXYZ"
        lower == "abcdefghijklmnopqrstuvwxyz"
        at == {i \in 1..26 : SubSeq(upper, i, i) = c}
    IN  IF at = {} THEN c ELSE LET i == CHOOSE i \in at : TRUE IN SubSeq(lower, i, i)

RECURSIVE Lower(_)
\* str.lower()
Lower(str) ==
    IF str = "" THEN ""
    ELSE LowerChar(SubSeq(str, 1, 1)) \o Lower(SubSeq(str, 2, Len(str)))

\* str.isdigit()
IsDigit(str) ==
    /\ Len(str) > 0
    /\ \A i \in 1..Len(str) : Contains(SubSeq(str, i, i), "0123456789")

\* int(str) for a string of digits
RECURSIVE ParseInt(_)
ParseInt(str) ==
    IF str = "" THEN 0
    ELSE LET last == SubSeq(str, Len(str), Len(str))
             digit == CHOOSE d \in 0..9 : SubSeq("0123456789", d + 1, d + 1) = last
         IN  10 * ParseInt(SubSeq(str, 1, Len(str) - 1)) + digit

\* str.replace(ch, '') for a one-character ch
RECURSIVE Without(_, _)
Without(str, ch) ==
    IF str = "" THEN ""
    ELSE (IF SubSeq(str, 1, 1) = ch THEN "" ELSE SubSeq(str, 1, 1))
           \o Without(SubSeq(str, 2, Len(str)), ch)

\* str.startswith(prefix)
StartsWith(str, prefix) ==
    Len(str) >= Len(prefix) /\ SubSeq(str, 1, Len(prefix)) = prefix

\* ', '.join(list)
RECURSIVE Join(_)
Join(list) ==
    IF list = <<>> THEN ""
    ELSE IF Len(list) = 1 THEN list[1]
    ELSE list[1] \o ", " \o Join(Tail(list))

\* entity.split('.', 1)[1]: the text after the first '.' 
AfterFirstDot(entity) ==
    LET first == CHOOSE i \in 1..Len(entity) :
                    /\ SubSeq(entity, i, i) = "."
                    /\ \A j \in 1..(i - 1) : SubSeq(entity, j, j) # "."
    IN  SubSeq(entity, first + 1, Len(entity))

\* `x in list`
InList(x, list) == \E i \in 1..Len(list) : list[i] = x

\* any(p in text for p in patterns)
AnyIn(patterns, text) == \E i \in 1..Len(patterns) : Contains(patterns[i], text)

\* [c for c in columns if any(p in c.lower() for p in patterns)]
ColumnsLike(columns, patterns) ==
    LET RECURSIVE Pick(_)
        Pick(i) ==
            IF i > Len(columns) THEN <<>>
            ELSE (IF AnyIn(patterns, Lower(columns[i])) THEN <<columns[i]>> ELSE <<>>)
                   \o Pick(i + 1)
    IN  Pick(1)

RECURSIVE SeqSum(_)
SeqSum(s) == IF s = <<>> THEN 0 ELSE Head(s) + SeqSum(Tail(s))

RECURSIVE SelectIdx(_, _, _)
\* the indices i of s, in order, with Keep(s[i])
SelectIdx(s, Keep(_), i) ==
    IF i > Len(s) THEN <<>>
    ELSE (IF Keep(s[i]) THEN <<i>> ELSE <<>>) \o SelectIdx(s, Keep, i + 1)

SeqUpTo(S, n) == UNION {[1..k -> S] : k \in 0..n}

-----------------------------------------------------------------------------
(* ViolationEngine: class tables *)

SEVERITY_WEIGHTS ==
    [critical |-> 100, high |-> 75, medium |-> 50, low |-> 25]

\* in tenths
RISK_MULTIPLIERS ==
    [data_encryption |-> 15, data_retention |-> 13, data_access |-> 14,
     consent |-> 12, age_restriction |-> 15, geographic_restriction |-> 13,
     audit_logging |-> 10, data_masking |-> 11, notification |-> 12,
     other |-> 10]

\* floor(math.log10(c) * 10^6) for c = 1 .. 160
Log10E6 == <<
    0, 301029, 477121, 602059, 698970, 778151, 845098, 903089,
    954242, 1000000, 1041392, 1079181, 1113943, 1146128, 1176091, 1204119,
    1230448, 1255272, 1278753, 1301029, 1322219, 1342422, 1361727, 1380211,
    1397940, 1414973, 1431363, 1447158, 1462397, 1477121, 1491361, 1505149,
    1518513, 1531478, 1544068, 1556302, 1568201, 1579783, 1591064, 1602059,
    1612783, 1623249, 1633468, 1643452, 1653212, 1662757, 1672097, 1681241,
    1690196, 1698970, 1707570, 1716003, 1724275, 1732393, 1740362, 1748188,
    1755874, 1763427, 1770852, 1778151, 1785329, 1792391, 1799340, 1806179,
    1812913, 1819543, 1826074, 1832508, 1838849, 1845098, 1851258, 1857332,
    1863322, 1869231, 1875061, 1880813, 1886490, 1892094, 1897627, 1903089,
    1908485, 1913813, 1919078, 1924279, 1929418, 1934498, 1939519, 1944482,
    1949390, 1954242, 1959041, 1963787, 1968482, 1973127, 1977723, 1982271,
    1986771, 1991226, 1995635, 2000000, 2004321, 2008600, 2012837, 2017033,
    2021189, 2025305, 2029383, 2033423, 2037426, 2041392, 2045322, 2049218,
    2053078, 2056904, 2060697, 2064457, 2068185, 2071882, 2075546, 2079181,
    2082785, 2086359, 2089905, 2093421, 2096910, 2100370, 2103803, 2107209,
    2110589, 2113943, 2117271, 2120573, 2123851, 2127104, 2130333, 2133538,
    2136720, 2139879, 2143014, 2146128, 2149219, 2152288, 2155336, 2158362,
    2161368, 2164352, 2167317, 2170261, 2173186, 2176091, 2178976, 2181843,
    2184691, 2187520, 2190331, 2193124, 2195899, 2198657, 2201397, 2204119 >>

-----------------------------------------------------------------------------
(* ViolationEngine: scoring *)

\* CountSeverity with the threshold compared by >= instead of >
CountSeverityInclusive(violation_count) ==
    IF violation_count >= 100 THEN "critical" ELSE "high"

\* `"critical" if violation_count > 100 else "high"` for encryption and
\* age-restriction hits
CountSeverity(violation_count) ==
    IF violation_count > 100 THEN "critical" ELSE "high"

\* _determine_severity taking the rule's severity only when it is one of the
\* four levels
_determine_severity_known_levels(potential_violation, rule) ==
    LET rule_severity == get(rule, "severity", None)
        violation_type == get(potential_violation, "type", "")
    IN  IF rule_severity \in {"critical", "high", "medium", "low"} THEN rule_severity
        ELSE IF violation_type \in {"data_encryption", "age_restriction"}
             THEN CountSeverity(get(potential_violation, "violation_count", 1))
        ELSE IF violation_type \in
                  {"data_retention", "data_access", "geographic_restriction"}
             THEN "high"
        ELSE IF violation_type \in {"consent", "data_masking", "notification"}
             THEN "medium"
        ELSE IF violation_type = "audit_logging" THEN "low"
        ELSE "medium"

_determine_severity(potential_violation, rule) ==
    LET rule_severity == get(rule, "severity", None)
        violation_type == get(potential_violation, "type", "")
    IN  IF Truthy(rule_severity) THEN rule_severity
        ELSE IF violation_type \in {"data_encryption", "age_restriction"}
             THEN CountSeverity(get(potential_violation, "violation_count", 1))
        ELSE IF violation_type \in
                  {"data_retention", "data_access", "geographic_restriction"}
             THEN "high"
        ELSE IF violation_type \in {"consent", "data_masking", "notification"}
             THEN "medium"
        ELSE IF violation_type = "audit_logging" THEN "low"
        ELSE "medium"

\* max(count, 1)
ClampCount(count) == IF count > 1 THEN count ELSE 1

\* round(base * multiplier * log10(max(count, 1)) * 0.1, 2) in hundredths,
\* base_x_mult being base * multiplier in tenths
CountBonus(base_x_mult, count) ==
    LET l  == Log10E6[ClampCount(count)]
        hi == l \div 1000
        lo == l % 1000
        q  == (base_x_mult * lo + 500000) \div 1000
    IN  (base_x_mult * hi + q) \div 1000

\* _calculate_risk_score without the cap min(score, 100)
_calculate_risk_score_uncapped(violation) ==
    LET base_score == get(SEVERITY_WEIGHTS, get(violation, "severity", "medium"), 50)
        multiplier == get(RISK_MULTIPLIERS, get(violation, "rule_type", "other"), 10)
    IN  base_score * multiplier * 10
          + CountBonus(base_score * multiplier, get(violation, "violation_count", 1))

_calculate_risk_score(violation) ==
    LET severity   == get(violation, "severity", "medium")
        base_score == get(SEVERITY_WEIGHTS, severity, 50)
        rule_type  == get(violation, "rule_type", "other")
        multiplier == get(RISK_MULTIPLIERS, rule_type, 10)
        count      == get(violation, "violation_count", 1)
        score      == base_score * multiplier * 10
                        + CountBonus(base_score * multiplier, count)
    IN  IF score < 10000 THEN score ELSE 10000

_categorize_violation(violation) ==
    LET categories ==
          [data_retention |-> "Data Lifecycle",
           data_access |-> "Access Control",
           data_encryption |-> "Data Protection",
           data_masking |-> "Data Protection",
           consent |-> "Privacy Rights",
           age_restriction |-> "Privacy Rights",
           geographic_restriction |-> "Data Sovereignty",
           audit_logging |-> "Audit & Compliance",
           notification |-> "Incident Response"]
    IN  get(categories, get(violation, "rule_type", ""), "General Compliance")

\* _map_to_frameworks with age_restriction counted among the GDPR types too
_map_to_frameworks_age_in_gdpr(violation) ==
    LET rule_type == get(violation, "rule_type", "")
        gdpr_types == {"consent", "data_retention", "geographic_restriction",
                       "data_access", "notification", "age_restriction"}
        hipaa_types == {"data_encryption", "data_access", "audit_logging",
                        "data_retention"}
        ccpa_types == {"consent", "data_access", "data_retention"}
        pci_types == {"data_encryption", "data_masking", "data_access",
                      "audit_logging"}
        sox_types == {"audit_logging", "data_access"}
    IN  (IF rule_type \in gdpr_types THEN <<"GDPR">> ELSE <<>>)
        \o (IF rule_type \in hipaa_types THEN <<"HIPAA">> ELSE <<>>)
        \o (IF rule_type \in ccpa_types THEN <<"CCPA">> ELSE <<>>)
        \o (IF rule_type \in pci_types THEN <<"PCI-DSS">> ELSE <<>>)
        \o (IF rule_type \in sox_types THEN <<"SOX">> ELSE <<>>)
        \o (IF rule_type = "age_restriction" THEN <<"COPPA">> ELSE <<>>)

_map_to_frameworks(violation) ==
    LET rule_type == get(violation, "rule_type", "")
        gdpr_types == {"consent", "data_retention", "geographic_restriction",
                       "data_access", "notification"}
        hipaa_types == {"data_encryption", "data_access", "audit_logging",
                        "data_retention"}
        ccpa_types == {"consent", "data_access", "data_retention"}
        pci_types == {"data_encryption", "data_masking", "data_access",
                      "audit_logging"}
        sox_types == {"audit_logging", "data_access"}
    IN  (IF rule_type \in gdpr_types THEN <<"GDPR">> ELSE <<>>)
        \o (IF rule_type \in hipaa_types THEN <<"HIPAA">> ELSE <<>>)
        \o (IF rule_type \in ccpa_types THEN <<"CCPA">> ELSE <<>>)
        \o (IF rule_type \in pci_types THEN <<"PCI-DSS">> ELSE <<>>)
        \o (IF rule_type \in sox_types THEN <<"SOX">> ELSE <<>>)
        \o (IF rule_type = "age_restriction" THEN <<"COPPA">> ELSE <<>>)

-----------------------------------------------------------------------------
(* DatabaseScanner: the column matcher *)

sensitive_patterns ==
    [data_encryption |-> <<"password", "ssn", "credit_card", "account_number",
                           "secret", "token", "key">>,
     data_masking |-> <<"email", "phone", "ssn", "credit_card", "account",
                        "address">>,
     consent |-> <<"email", "marketing", "consent", "opted">>,
     age_restriction |-> <<"birthdate", "birth_date", "dob", "date_of_birth", "age">>,
     geographic_restriction |-> <<"country", "region", "location", "address",
                                  "city", "state">>]

\* EntityColumns without the `in columns` tests: every hint contributes its
\* column part
EntityColumnsUnchecked(entities, columns) ==
    [i \in 1..Len(entities) |->
        IF Contains(".", entities[i]) THEN AfterFirstDot(entities[i])
        ELSE entities[i]]

\* the first loop of _find_applicable_columns: the columns the entity hints name
RECURSIVE EntityColumns(_, _)
EntityColumns(entities, columns) ==
    IF entities = <<>> THEN <<>>
    ELSE LET entity == Head(entities)
             col == IF Contains(".", entity) THEN AfterFirstDot(entity) ELSE entity
         IN  (IF InList(col, columns) THEN <<col>> ELSE <<>>)
               \o EntityColumns(Tail(entities), columns)

\* the second loop: the columns whose lower-cased name holds a pattern of the
\* rule's type are appended unless already there
RECURSIVE PatternColumns(_, _, _)
PatternColumns(applicable, columns, patterns) ==
    IF columns = <<>> THEN applicable
    ELSE LET col == Head(columns)
             add == AnyIn(patterns, Lower(col)) /\ ~InList(col, applicable)
         IN  PatternColumns(IF add THEN Append(applicable, col) ELSE applicable,
                            Tail(columns), patterns)

_find_applicable_columns(rule, columns) ==
    PatternColumns(EntityColumns(get(rule, "entities", <<>>), columns), columns,
                   get(sensitive_patterns, get(rule, "type", ""), <<>>))

-----------------------------------------------------------------------------
(* ViolationExplainer, offline: no LLM client is configured, or its call   *)
(* failed, and the templates are used                                      *)

\* a template is the sequence of its literal pieces and {placeholders}
EXPLANATION_TEMPLATES ==
    [data_retention |->
        [template |->
            <<"Data retention violation detected in ", "{table}", ".", "{column}", ". ",
              "{count}", " records exceed the maximum retention period of ", "{period}",
              ". According to the policy, data should be deleted after this period ",
              "to comply with data lifecycle requirements.">>,
         remediation |->
            <<"Identify and archive or delete records older than the retention period",
              "Implement automated data purging based on retention rules",
              "Review data retention policies with legal/compliance team",
              "Set up monitoring alerts for aging data">>],
     data_encryption |->
        [template |->
            <<"Unencrypted sensitive data detected in ", "{table}", ".", "{column}",
              ". The column appears to contain plaintext sensitive information that ",
              "should be encrypted according to data protection policies.">>,
         remediation |->
            <<"Encrypt sensitive data at rest using AES-256 or equivalent",
              "Implement column-level encryption for sensitive fields",
              "Review encryption key management practices",
              "Audit all tables for additional unencrypted sensitive data">>],
     data_masking |->
        [template |->
            <<"Unmasked sensitive data found in ", "{table}", ".", "{column}",
              ". Personal information is stored in plaintext and should be masked or ",
              "tokenized to protect privacy.">>,
         remediation |->
            <<"Implement data masking for non-production environments",
              "Use tokenization for sensitive identifiers",
              "Apply dynamic data masking based on user roles",
              "Review access controls for sensitive data">>],
     data_access |->
        [template |->
            <<"Potential access control violation in ", "{table}", ". Sensitive columns (",
              "{columns}",
              ") may lack proper access restrictions as required by the policy.">>,
         remediation |->
            <<"Implement role-based access control (RBAC)",
              "Review and restrict database user permissions",
              "Enable row-level security where applicable", "Audit access logs regularly">>],
     age_restriction |->
        [template |->
            <<"Age restriction violation found in ", "{table}", ". ", "{count}",
              " records indicate users below the minimum required age. This may ",
              "violate COPPA or similar regulations.">>,
         remediation |->
            <<"Implement age verification at data collection point",
              "Review and remove records of underage users",
              "Update registration forms with age verification",
              "Consult legal team for compliance requirements">>],
     geographic_restriction |->
        [template |->
            <<"Geographic data restriction concern in ", "{table}", ".", "{column}",
              ". Data from restricted regions may be stored in violation of data ",
              "residency requirements.">>,
         remediation |->
            <<"Review data residency requirements for each region",
              "Implement geo-fencing for data storage",
              "Consider regional data centers for compliance",
              "Document data flow and storage locations">>],
     consent |->
        [template |->
            <<"Consent compliance issue detected. Records may exist without proper ",
              "consent documentation as required by privacy regulations.">>,
         remediation |->
            <<"Implement consent management platform",
              "Update data collection forms with consent checkboxes",
              "Maintain audit trail of consent records", "Provide easy opt-out mechanisms">>],
     audit_logging |->
        [template |->
            <<"Audit logging deficiency in ", "{table}",
              ". The table lacks standard audit columns (created_at, updated_at, ",
              "modified_by) required for compliance tracking.">>,
         remediation |->
            <<"Add audit columns to track record changes",
              "Implement database triggers for audit logging",
              "Set up centralized audit log collection", "Enable change data capture (CDC)">>],
     notification |->
        [template |->
            <<"Notification compliance issue. The system may not meet required ",
              "notification timeframes for data breaches or incidents.">>,
         remediation |->
            <<"Document incident response procedures",
              "Implement automated breach notification system",
              "Train staff on notification requirements",
              "Test incident response plans regularly">>]]

DefaultTemplate == <<"Compliance violation detected in ", "{table}", ". ", "{details}">>

DefaultRemediation ==
    <<"Review the violation details with your compliance team",
      "Document the violation and create a remediation plan",
      "Implement necessary changes to address the compliance gap",
      "Verify remediation and update compliance documentation">>

\* template.format(table=..., column=..., columns=..., count=..., period=...,
\* details=...); the fields but violation_count hold strings, None included
Format(template, violation) ==
    LET columns == get(violation, "columns", <<>>)
        Value(piece) ==
          CASE piece = "{table}" -> get(violation, "table", "unknown table")
            [] piece = "{column}" -> get(violation, "column", "multiple columns")
            [] piece = "{columns}" ->
                 IF columns # NoColumns /\ columns # <<>> THEN Join(columns)
                 ELSE get(violation, "column", "")
            [] piece = "{count}" ->
                 IF "violation_count" \in DOMAIN violation
                 THEN ToString(violation.violation_count) ELSE "Multiple"
            [] piece = "{period}" -> get(violation, "details", "")
            [] piece = "{details}" -> get(violation, "details", "Review needed.")
            [] OTHER -> piece
        RECURSIVE Filled(_)
        Filled(i) == IF i > Len(template) THEN ""
                     ELSE Value(template[i]) \o Filled(i + 1)
    IN  Filled(1)

_template_explain(violation) ==
    LET rule_type == get(violation, "rule_type", "other")
    IN  Format(IF rule_type \in DOMAIN EXPLANATION_TEMPLATES
               THEN EXPLANATION_TEMPLATES[rule_type].template
               ELSE DefaultTemplate, violation)

_template_remediation(violation) ==
    LET rule_type == get(violation, "rule_type", "other")
    IN  IF rule_type \in DOMAIN EXPLANATION_TEMPLATES
        THEN EXPLANATION_TEMPLATES[rule_type].remediation
        ELSE DefaultRemediation

\* the two fields scan_for_violations sets on a violation
Explained(violation) ==
    ("explanation" :> _template_explain(violation))
      @@ ("remediation" :> _template_remediation(violation)) @@ violation

-----------------------------------------------------------------------------
(* DatabaseScanner: the rule checkers.                                     *)
(*                                                                         *)
(* connector.execute_query either raises or returns rows: [ok, rows], the  *)
(* rows of a counting query being <<count>>  and those of a sampling query  *)
(* the sampled values.  answers[c] lists what the store answers to the     *)
(* successive queries on column c ("*": the table).  A checker yields      *)
(* [raised, error, hits, queries, failed]: whether it raised, the hits it  *)
(* returned, the queries it issued and how many of them failed.            *)

Failed == [ok |-> FALSE, rows |-> <<>>]
Rows(rows) == [ok |-> TRUE, rows |-> rows]

Quiet == [raised |-> FALSE, error |-> None, hits |-> <<>>, queries |-> 0, failed |-> 0]
Raises(error) == [Quiet EXCEPT !.raised = TRUE, !.error = error]

\* the results of a checker's per-column loop, put together
OverColumns(columns, PerColumn(_)) ==
    LET each == [i \in 1..Len(columns) |-> PerColumn(columns[i])]
        RECURSIVE HitsFrom(_)
        HitsFrom(i) == IF i > Len(columns) THEN <<>>
                       ELSE each[i].hits \o HitsFrom(i + 1)
    IN  [raised |-> FALSE, error |-> None,
         hits |-> HitsFrom(1),
         queries |-> SeqSum([i \in 1..Len(columns) |-> each[i].queries]),
         failed |-> SeqSum([i \in 1..Len(columns) |-> each[i].failed])]

\* one query in a try block whose except clause only logs
Guarded(answer, HitsOf(_)) ==
    [hits |-> IF answer.ok THEN HitsOf(answer.rows) ELSE <<>>,
     queries |-> 1,
     failed |-> IF answer.ok THEN 0 ELSE 1]

\* `result and result[0]['count'] > 0`
CountPositive(rows) == rows # <<>> /\ rows[1] > 0

\* retention_value is a string of digits (or absent); int() raises on others
retention_days(rule) ==
    LET value == ParseInt(get(rule, "retention_value", "90"))
        unit == Lower(get(rule, "retention_unit", "days"))
    IN  IF Contains("month", unit) THEN value * 30
        ELSE IF Contains("year", unit) THEN value * 365
        ELSE value

\* _check_data_retention without the inner try: a failed first query ends the
\* check of its column
_check_data_retention_no_fallback(table, rule, columns, answers, is_sql) ==
    LET date_columns ==
          ColumnsLike(columns, <<"date", "time", "created", "updated", "modified">>)
        days == retention_days(rule)
        Hit(date_col, count) ==
          [type |-> "data_retention", table |-> table, column |-> date_col,
           rule_id |-> get(rule, "id", None), rule_text |-> get(rule, "text", None),
           violation_count |-> count,
           details |-> "Found " \o ToString(count) \o " records older than "
                          \o ToString(days) \o " days based on " \o date_col]
        PerColumn(date_col) ==
          IF ~is_sql THEN [hits |-> <<>>, queries |-> 0, failed |-> 0]
          ELSE Guarded(answers[date_col][1],
                       LAMBDA rows : IF CountPositive(rows)
                                     THEN <<Hit(date_col, rows[1])>> ELSE <<>>)
    IN  IF date_columns = <<>> THEN Quiet
        ELSE IF get(rule, "retention_value", "90") = None THEN Raises("TypeError")
        ELSE IF ~IsDigit(get(rule, "retention_value", "90")) THEN Raises("ValueError")
        ELSE IF get(rule, "retention_unit", "days") = None
             THEN Raises("AttributeError")
        ELSE OverColumns(date_columns, PerColumn)

_check_data_retention(table, rule, columns, answers, is_sql) ==
    LET date_columns ==
          ColumnsLike(columns, <<"date", "time", "created", "updated", "modified">>)
        days == retention_days(rule)
        Hit(date_col, count) ==
          [type |-> "data_retention", table |-> table, column |-> date_col,
           rule_id |-> get(rule, "id", None), rule_text |-> get(rule, "text", None),
           violation_count |-> count,
           details |-> "Found " \o ToString(count) \o " records older than "
                          \o ToString(days) \o " days based on " \o date_col]
        HitsOf(date_col, rows) ==
          IF CountPositive(rows) THEN <<Hit(date_col, rows[1])>> ELSE <<>>
        PerColumn(date_col) ==
          IF ~is_sql THEN [hits |-> <<>>, queries |-> 0, failed |-> 0]
          ELSE IF answers[date_col][1].ok
               THEN [hits |-> HitsOf(date_col, answers[date_col][1].rows),
                     queries |-> 1, failed |-> 0]
          ELSE \* the standard-SQL query failed: the SQLite form is tried once
               IF answers[date_col][2].ok
               THEN [hits |-> HitsOf(date_col, answers[date_col][2].rows),
                     queries |-> 2, failed |-> 1]
               ELSE [hits |-> <<>>, queries |-> 2, failed |-> 2]
    IN  IF date_columns = <<>> THEN Quiet
        ELSE IF get(rule, "retention_value", "90") = None THEN Raises("TypeError")
        ELSE IF ~IsDigit(get(rule, "retention_value", "90")) THEN Raises("ValueError")
        ELSE IF get(rule, "retention_unit", "days") = None
             THEN Raises("AttributeError")
        ELSE OverColumns(date_columns, PerColumn)

\* the plaintext heuristics of _check_data_encryption
is_plaintext(col, value) ==
    \/ Contains("ssn", Lower(col)) /\ Len(value) = 9 /\ IsDigit(value)
    \/ Contains("credit", Lower(col)) /\ Len(value) \in {15, 16} /\ IsDigit(value)
    \/ Contains("password", Lower(col)) /\ Len(value) < 60

\* _check_data_encryption counting the plaintext values of the sample
_check_data_encryption_counting(table, rule, columns, answers) ==
    LET Hit(col, count) ==
          [type |-> "data_encryption", table |-> table, column |-> col,
           rule_id |-> get(rule, "id", None), rule_text |-> get(rule, "text", None),
           violation_count |-> count,
           details |-> "Column " \o col
                          \o " appears to contain unencrypted sensitive data"]
        HitsOf(col, rows) ==
          IF \E i \in 1..Len(rows) : is_plaintext(col, rows[i])
          THEN <<Hit(col, Cardinality({i \in 1..Len(rows) :
                                         is_plaintext(col, rows[i])}))>>
          ELSE <<>>
        PerColumn(col) == Guarded(answers[col][1], LAMBDA rows : HitsOf(col, rows))
    IN  OverColumns(columns, PerColumn)

_check_data_encryption(table, rule, columns, answers) ==
    LET Hit(col) ==
          [type |-> "data_encryption", table |-> table, column |-> col,
           rule_id |-> get(rule, "id", None), rule_text |-> get(rule, "text", None),
           details |-> "Column " \o col
                          \o " appears to contain unencrypted sensitive data"]
        HitsOf(col, rows) ==
          IF \E i \in 1..Len(rows) : is_plaintext(col, rows[i])
          THEN <<Hit(col)>> ELSE <<>>
        PerColumn(col) == Guarded(answers[col][1], LAMBDA rows : HitsOf(col, rows))
    IN  OverColumns(columns, PerColumn)

\* the unmasked heuristics of _check_data_masking
is_unmasked(col, value) ==
    \/ Contains("email", Lower(col)) /\ Contains("@", value)
          /\ ~StartsWith(value, "***")
    \/ /\ ~(Contains("email", Lower(col)) /\ Contains("@", value)
              /\ ~StartsWith(value, "***"))
       /\ Contains("phone", Lower(col))
       /\ Len(Without(Without(value, "-"), " ")) >= 10

_check_data_masking(table, rule, columns, answers) ==
    LET Hit(col) ==
          [type |-> "data_masking", table |-> table, column |-> col,
           rule_id |-> get(rule, "id", None), rule_text |-> get(rule, "text", None),
           details |-> "Column " \o col \o " contains unmasked sensitive data"]
        HitsOf(col, rows) ==
          IF \E i \in 1..Len(rows) : is_unmasked(col, rows[i])
          THEN <<Hit(col)>> ELSE <<>>
        PerColumn(col) == Guarded(answers[col][1], LAMBDA rows : HitsOf(col, rows))
    IN  OverColumns(columns, PerColumn)

_check_data_access(table, rule, columns) ==
    LET sensitive_cols ==
          ColumnsLike(columns, <<"password", "secret", "token", "key", "ssn", "credit">>)
    IN  IF sensitive_cols = <<>> THEN Quiet
        ELSE [Quiet EXCEPT !.hits =
                <<[type |-> "data_access", table |-> table,
                   columns |-> sensitive_cols,
                   rule_id |-> get(rule, "id", None),
                   rule_text |-> get(rule, "text", None),
                   details |-> "Table contains sensitive columns that may need access controls: "
                                  \o Join(sensitive_cols),
                   requires_review |-> TRUE]>>]

\* re.search(r'(\d+)\s*(?:years?)', text, re.IGNORECASE): the digits of the
\* leftmost match, "" when there is none
YearsMatch(text) ==
    LET n == Len(text)
        Digit(i) == i \in 1..n /\ IsDigit(SubSeq(text, i, i))
        \* last index of the run of digits that starts at i
        RunEnd(i) == CHOOSE e \in i..n :
                        /\ \A k \in i..e : Digit(k)
                        /\ ~Digit(e + 1)
        \* first index behind the blanks that start at i
        SkipBlanks(i) == CHOOSE k \in i..(n + 1) :
                            /\ \A j \in i..(k - 1) : SubSeq(text, j, j) = " "
                            /\ k = n + 1 \/ SubSeq(text, k, k) # " "
        MatchesAt(i) ==
            /\ Digit(i)
            /\ LET k == SkipBlanks(RunEnd(i) + 1)
               IN  k + 3 <= n /\ Lower(SubSeq(text, k, k + 3)) = "year"
        starts == {i \in 1..n : MatchesAt(i)}
    IN  IF starts = {} THEN ""
        ELSE LET i == CHOOSE i \in starts : \A j \in starts : i <= j
             IN  SubSeq(text, i, RunEnd(i))

min_age(rule) ==
    LET found == YearsMatch(get(rule, "text", ""))
    IN  IF found = "" THEN 18 ELSE ParseInt(found)

_check_age_restriction(table, rule, columns, answers, is_sql) ==
    LET birth_cols == ColumnsLike(columns, <<"birth", "dob", "date_of_birth">>)
        Hit(col, count) ==
          [type |-> "age_restriction", table |-> table, column |-> col,
           rule_id |-> get(rule, "id", None), rule_text |-> get(rule, "text", None),
           violation_count |-> count,
           details |-> "Found " \o ToString(count) \o " records with age below "
                          \o ToString(min_age(rule))]
        HitsOf(col, rows) ==
          IF CountPositive(rows) THEN <<Hit(col, rows[1])>> ELSE <<>>
        PerColumn(col) ==
          IF ~is_sql THEN [hits |-> <<>>, queries |-> 0, failed |-> 0]
          ELSE Guarded(answers[col][1], LAMBDA rows : HitsOf(col, rows))
    IN  IF birth_cols = <<>> THEN Quiet
        ELSE IF get(rule, "text", "") = None THEN Raises("TypeError")
        ELSE OverColumns(birth_cols, PerColumn)

\* unique_values[:10]
FirstTen(values) == SubSeq(values, 1, IF Len(values) < 10 THEN Len(values) ELSE 10)

_check_geographic_restriction(table, rule, columns, answers) ==
    LET geo_cols == ColumnsLike(columns, <<"country", "region", "location">>)
        Hit(col, values) ==
          [type |-> "geographic_restriction", table |-> table, column |-> col,
           rule_id |-> get(rule, "id", None), rule_text |-> get(rule, "text", None),
           unique_regions |-> FirstTen(values),
           details |-> "Geographic data found in " \o col
                          \o ". Manual review needed for compliance.",
           requires_review |-> TRUE]
        HitsOf(col, rows) == IF rows # <<>> THEN <<Hit(col, rows)>> ELSE <<>>
        PerColumn(col) == Guarded(answers[col][1], LAMBDA rows : HitsOf(col, rows))
    IN  IF geo_cols = <<>> THEN Quiet
        ELSE IF get(rule, "text", "") = None THEN Raises("AttributeError")
        ELSE OverColumns(geo_cols, PerColumn)

_check_audit_logging(table, rule, columns) ==
    LET audit_cols == <<"created_at", "updated_at", "modified_at", "created_by",
                        "modified_by", "audit_log">>
        has_audit == \E i \in 1..Len(columns) : AnyIn(audit_cols, Lower(columns[i]))
    IN  IF has_audit THEN Quiet
        ELSE [Quiet EXCEPT !.hits =
                <<[type |-> "audit_logging", table |-> table,
                   rule_id |-> get(rule, "id", None),
                   rule_text |-> get(rule, "text", None),
                   details |-> "Table " \o table
                                  \o " lacks audit columns (created_at, updated_at, etc.)",
                   requires_review |-> TRUE]>>]

\* the hit of _check_sql_condition
SqlConditionHit(table, rule, count) ==
    [type |-> get(rule, "type", "custom"), table |-> table,
     rule_id |-> get(rule, "id", None), rule_text |-> get(rule, "text", None),
     violation_count |-> count,
     sql_condition |-> get(rule, "sql_condition", None),
     details |-> "Found " \o ToString(count) \o " records matching violation condition"]

\* _check_sql_condition with its query outside the try block
_check_sql_condition_unguarded(table, rule, answers) ==
    IF ~Truthy(get(rule, "sql_condition", None)) THEN Quiet
    ELSE IF ~answers["*"][1].ok
         THEN [Raises("OperationalError") EXCEPT !.queries = 1, !.failed = 1]
    ELSE [Quiet EXCEPT !.queries = 1,
                       !.hits = IF CountPositive(answers["*"][1].rows)
                                THEN <<SqlConditionHit(table, rule,
                                                       answers["*"][1].rows[1])>>
                                ELSE <<>>]

_check_sql_condition(table, rule, answers) ==
    LET HitsOf(rows) ==
          IF CountPositive(rows) THEN <<SqlConditionHit(table, rule, rows[1])>>
          ELSE <<>>
        found == Guarded(answers["*"][1], HitsOf)
    IN  IF ~Truthy(get(rule, "sql_condition", None)) THEN Quiet
        ELSE [Quiet EXCEPT !.hits = found.hits, !.queries = found.queries,
                           !.failed = found.failed]

-----------------------------------------------------------------------------
(* DatabaseScanner._check_rule_against_table *)

DedicatedTypes ==
    {"data_retention", "data_encryption", "data_masking", "data_access",
     "age_restriction", "geographic_restriction", "audit_logging"}

\* CheckerFor with the predicate test first: a rule carrying a sql_condition
\* runs the generic checker whatever its type
CheckerForPredicateFirst(rule) ==
    LET rule_type == get(rule, "type", "other")
    IN  IF Truthy(get(rule, "sql_condition", None)) THEN "sql_condition"
        ELSE IF rule_type \in DedicatedTypes THEN rule_type
        ELSE "none"

\* the checker the if / elif chain runs for a rule, "none" when it runs none
CheckerFor(rule) ==
    LET rule_type == get(rule, "type", "other")
    IN  IF rule_type \in DedicatedTypes THEN rule_type
        ELSE IF Truthy(get(rule, "sql_condition", None)) THEN "sql_condition"
        ELSE "none"

\* NotApplicable never holding: the early return left out
NeverNotApplicable(rule, applicable_columns) == FALSE

\* `if not applicable_columns and not rule.get('sql_condition'): return violations`
NotApplicable(rule, applicable_columns) ==
    applicable_columns = <<>> /\ ~Truthy(get(rule, "sql_condition", None))

\* the body of the try block: the checker's result
RunChecker(table, rule, columns, applicable_columns, answers, is_sql) ==
    LET checker == CheckerFor(rule)
    IN  CASE checker = "data_retention" ->
               _check_data_retention(table, rule, columns, answers, is_sql)
          [] checker = "data_encryption" ->
               _check_data_encryption(table, rule, applicable_columns, answers)
          [] checker = "data_masking" ->
               _check_data_masking(table, rule, applicable_columns, answers)
          [] checker = "data_access" -> _check_data_access(table, rule, columns)
          [] checker = "age_restriction" ->
               _check_age_restriction(table, rule, columns, answers, is_sql)
          [] checker = "geographic_restriction" ->
               _check_geographic_restriction(table, rule, columns, answers)
          [] checker = "audit_logging" -> _check_audit_logging(table, rule, columns)
          [] checker = "sql_condition" -> _check_sql_condition(table, rule, answers)
          [] OTHER -> Quiet

\* OnCheckerError without the except clause: the exception leaves the scan
PropagateCheckerError(table, rule, ran) ==
    [propagated |-> ran.raised, violations |-> ran.hits]

\* `except Exception as e`: the error becomes a scan_error entry
OnCheckerError(table, rule, ran) ==
    [propagated |-> FALSE,
     violations |->
        IF ran.raised
        THEN ran.hits \o <<[type |-> "scan_error", table |-> table,
                            rule_id |-> get(rule, "id", None),
                            error |-> ran.error]>>
        ELSE ran.hits]

\* the record of a check that ran: `ran` is what the checker did, `out` what
\* the except clause made of it
CheckRan(table, rule, applicable_columns, ran, out) ==
    [table |-> table, rule |-> rule,
     applicable |-> applicable_columns, checker |-> CheckerFor(rule),
     raised |-> ran.raised, propagated |-> out.propagated,
     queries |-> ran.queries, failed |-> ran.failed,
     violations |-> out.violations]

\* the try block and its except clause
CheckTried(table, rule, applicable_columns, ran) ==
    CheckRan(table, rule, applicable_columns, ran, OnCheckerError(table, rule, ran))

\* what one (table, rule) check did: the matched columns, the checker run,
\* whether it raised, its queries, and the entries the check returns
_check_rule_against_table(table, rule, columns, answers, is_sql) ==
    LET applicable_columns == _find_applicable_columns(rule, columns)
    IN  IF NotApplicable(rule, applicable_columns)
        THEN [table |-> table, rule |-> rule,
              applicable |-> applicable_columns, checker |-> "none",
              raised |-> FALSE, propagated |-> FALSE, queries |-> 0, failed |-> 0,
              violations |-> <<>>]
        ELSE CheckTried(table, rule, applicable_columns,
                        RunChecker(table, rule, columns, applicable_columns,
                                   answers, is_sql))

\* the columns ("*": the table) the check of a rule on a table queries
QueriedColumns(rule, columns, is_sql) ==
    LET applicable_columns == _find_applicable_columns(rule, columns)
        checker == CheckerFor(rule)
        Elements(list) == {list[i] : i \in 1..Len(list)}
    IN  IF NotApplicable(rule, applicable_columns) THEN {}
        ELSE CASE checker = "data_retention" /\ is_sql ->
                    Elements(ColumnsLike(columns,
                        <<"date", "time", "created", "updated", "modified">>))
               [] checker \in {"data_encryption", "data_masking"} ->
                    Elements(applicable_columns)
               [] checker = "age_restriction" /\ is_sql ->
                    Elements(ColumnsLike(columns, <<"birth", "dob", "date_of_birth">>))
               [] checker = "geographic_restriction" ->
                    Elements(ColumnsLike(columns, <<"country", "region", "location">>))
               [] checker = "sql_condition" -> {"*"}
               [] OTHER -> {}

-----------------------------------------------------------------------------
(* DatabaseScanner.scan *)

\* connector.get_tables()
get_tables(db) == [i \in 1..Len(db.tables) |-> db.tables[i].name]

\* [col['name'] for col in schema.get(table, {}).get('columns', [])]: a table
\* whose schema could not be read has an error entry and no columns
schema_columns(db, table) ==
    LET found == {i \in 1..Len(db.tables) : db.tables[i].name = table}
    IN  IF found = {} THEN <<>>
        ELSE LET i == CHOOSE i \in found : \A j \in found : j <= i
             IN  IF db.tables[i].readable THEN db.tables[i].columns ELSE <<>>

\* the locals of scan as the call starts
scan_start(rule_list, tables, db, now) ==
    [pc |-> "scanning", scan_id |-> now, rules |-> rule_list,
     all_tables |-> get_tables(db),
     tables_to_scan |-> IF tables # <<>> THEN tables ELSE get_tables(db),
     table |-> 1, rule |-> 1, table_results |-> <<>>,
     tables_scanned |-> <<>>, potential_violations |-> <<>>]

\* the entry scan appends to scan_history
history_entry(run, now) ==
    [scan_id |-> run.scan_id, timestamp |-> now,
     tables |-> Len(run.tables_to_scan),
     violations |-> Len(run.potential_violations)]

-----------------------------------------------------------------------------
(* ViolationEngine.detect *)

\* rules_map = {r['id']: r for r in rules if 'id' in r}; rules_map.get(rule_id, {})
rules_map_get(rule_list, rule_id) ==
    LET hits == {i \in 1..Len(rule_list) :
                    "id" \in DOMAIN rule_list[i] /\ rule_list[i].id = rule_id}
    IN  IF hits = {} THEN EmptyDict
        ELSE rule_list[CHOOSE i \in hits : \A j \in hits : j <= i]

\* `if pv.get('type') == 'scan_error': continue`
IsScanError(pv) == get(pv, "type", None) = "scan_error"

\* _determine_severity and the fields copied from the hit, as NewViolation
\* below, but adding to the hit count the violations the engine already holds
\* for the same rule and table
NewViolationCountingRepeats(pv, rule, scan_id, uuid, now) ==
    LET repeats == Cardinality({i \in 1..Len(detected_violations) :
                      /\ detected_violations[i].rule_id = get(pv, "rule_id", None)
                      /\ detected_violations[i].table = get(pv, "table", None)})
        violation ==
          [id |-> uuid,
           scan_id |-> scan_id,
           rule_id |-> get(pv, "rule_id", None),
           rule_type |-> get(pv, "type", None),
           rule_text |-> IF Truthy(get(pv, "rule_text", None))
                         THEN pv.rule_text ELSE get(rule, "text", None),
           table |-> get(pv, "table", None),
           column |-> get(pv, "column", None),
           columns |-> get(pv, "columns", NoColumns),
           violation_count |-> get(pv, "violation_count", 1) + repeats,
           details |-> get(pv, "details", None),
           detected_at |-> now,
           status |-> "open",
           requires_review |-> get(pv, "requires_review", FALSE)]
        with_severity ==
          ("severity" :> _determine_severity(pv, rule)) @@ violation
        with_score ==
          ("risk_score" :> _calculate_risk_score(with_severity)) @@ with_severity
        with_category ==
          ("category" :> _categorize_violation(with_score)) @@ with_score
    IN  ("frameworks" :> _map_to_frameworks(with_category)) @@ with_category

\* the violation record built for one potential violation (detect, loop body)
NewViolation(pv, rule, scan_id, uuid, now) ==
    LET violation ==
          [id |-> uuid,
           scan_id |-> scan_id,
           rule_id |-> get(pv, "rule_id", None),
           rule_type |-> get(pv, "type", None),
           rule_text |-> IF Truthy(get(pv, "rule_text", None))
                         THEN pv.rule_text ELSE get(rule, "text", None),
           table |-> get(pv, "table", None),
           column |-> get(pv, "column", None),
           columns |-> get(pv, "columns", NoColumns),
           violation_count |-> get(pv, "violation_count", 1),
           details |-> get(pv, "details", None),
           detected_at |-> now,
           status |-> "open",
           requires_review |-> get(pv, "requires_review", FALSE)]
        with_severity ==
          ("severity" :> _determine_severity(pv, rule)) @@ violation
        with_score ==
          ("risk_score" :> _calculate_risk_score(with_severity)) @@ with_severity
        with_category ==
          ("category" :> _categorize_violation(with_score)) @@ with_score
    IN  ("frameworks" :> _map_to_frameworks(with_category)) @@ with_category

\* InsertByRisk placing a violation in front of the earlier ones of equal score
InsertByRiskBeforeTies(sorted, v) ==
    LET n == Cardinality({i \in 1..Len(sorted) :
                             sorted[i].risk_score > v.risk_score})
    IN  SubSeq(sorted, 1, n) \o <<v>> \o SubSeq(sorted, n + 1, Len(sorted))

\* violations.sort(key=risk_score, reverse=True): a stable sort, so a violation
\* goes behind every earlier one whose score is not smaller
InsertByRisk(sorted, v) ==
    LET n == Cardinality({i \in 1..Len(sorted) :
                             sorted[i].risk_score >= v.risk_score})
    IN  SubSeq(sorted, 1, n) \o <<v>> \o SubSeq(sorted, n + 1, Len(sorted))

RECURSIVE SortByRisk(_)
SortByRisk(vs) ==
    IF vs = <<>> THEN <<>>
    ELSE InsertByRisk(SortByRisk(SubSeq(vs, 1, Len(vs) - 1)), vs[Len(vs)])

\* ScoreHits also skipping the hits whose rule is not among the rules given
ScoreHitsOfKnownRules(potential_violations, rule_list, scan_id, first_uuid, now) ==
    LET kept == SelectIdx(potential_violations,
                          LAMBDA pv : /\ ~IsScanError(pv)
                                      /\ rules_map_get(rule_list,
                                            get(pv, "rule_id", None)) # EmptyDict,
                          1)
    IN  [k \in 1..Len(kept) |->
            LET pv == potential_violations[kept[k]]
            IN  NewViolation(pv, rules_map_get(rule_list, get(pv, "rule_id", None)),
                             scan_id, first_uuid + k, now)]

\* the violations of one detect call, in the order of their hits
ScoreHits(potential_violations, rule_list, scan_id, first_uuid, now) ==
    LET kept == SelectIdx(potential_violations, LAMBDA pv : ~IsScanError(pv), 1)
    IN  [k \in 1..Len(kept) |->
            LET pv == potential_violations[kept[k]]
            IN  NewViolation(pv, rules_map_get(rule_list, get(pv, "rule_id", None)),
                             scan_id, first_uuid + k, now)]

\* detect numbering the violations of every call from one, instead of drawing
\* a fresh uuid4 for each
detectNumberingPerCall(results, rule_list, first_uuid, now) ==
    SortByRisk(ScoreHits(get(results, "potential_violations", <<>>), rule_list,
                         get(results, "scan_id", None), 0, now))

\* ViolationEngine.detect: the list it returns
detect(results, rule_list, first_uuid, now) ==
    SortByRisk(ScoreHits(get(results, "potential_violations", <<>>), rule_list,
                         get(results, "scan_id", None), first_uuid, now))

-----------------------------------------------------------------------------
(* Values the other components start from in a specification that does not *)
(* exercise them                                                           *)

NoScan ==
    [pc |-> "idle", scan_id |-> 0, rules |-> <<>>, all_tables |-> <<>>,
     tables_to_scan |-> <<>>, table |-> 1, rule |-> 1, table_results |-> <<>>,
     tables_scanned |-> <<>>, potential_violations |-> <<>>]
NoDatabase == [is_sql |-> TRUE, tables |-> <<>>]
NoCall == [tables |-> <<>>, rules |-> <<>>, limit |-> 0]
IdleScore == [done |-> FALSE]
IdleMatch == [done |-> FALSE]
NoResults == [scan_id |-> 0, potential_violations |-> <<>>]

ScoreIdle == score_in = IdleScore /\ score_out = IdleScore
MatchIdle == match_in = IdleMatch /\ match_out = IdleMatch
NoReviews == [reviews |-> <<>>, review_history |-> <<>>]
NoReviewCall == [raised |-> "None"]
ReviewIdle == review_workflow = NoReviews /\ review_call = NoReviewCall
NoTasks == tasks = <<>>
NoApprovalCall == [raised |-> "None"]
NoApprovals == approvals = <<>> /\ approval_call = NoApprovalCall
EngineIdle ==
    /\ detected_violations = <<>>
    /\ uuid_count = 0
    /\ scan_results = NoResults
    /\ rules = <<>>
    /\ returned = <<>>
    /\ detect_log = <<>>
    /\ clock = 0
AgentIdle ==
    /\ db_connector = "None"
    /\ db_scanner = "None"
    /\ last_connect = "never"
    /\ scan_history = <<>>
    /\ violations = <<>>
    /\ agent_pc = "idle"
    /\ agent_call = NoCall
    /\ scan_run = NoScan
    /\ database = NoDatabase
    /\ checked = <<>>

-----------------------------------------------------------------------------
(* SpecSeverity: _determine_severity and _calculate_risk_score on every    *)
(* rule severity, hit type and hit count of the bounded input sets         *)

MaxCount == 150

HitTypes ==
    {"data_encryption", "age_restriction", "data_retention", "data_access",
     "geographic_restriction", "consent", "data_masking", "notification",
     "audit_logging", "other", "custom"}

DeclaredSeverities == {"critical", "high", "medium", "low", "urgent", ""}

ScoreRules == {EmptyDict} \cup {[severity |-> s] : s \in DeclaredSeverities}

ScoreHitsIn ==
    {[type |-> t] : t \in HitTypes}
      \cup {[type |-> t, violation_count |-> c] : t \in HitTypes, c \in -1..MaxCount}

InitSeverity ==
    /\ score_in \in {[done |-> FALSE, pv |-> pv, rule |-> rule] :
                        pv \in ScoreHitsIn, rule \in ScoreRules}
    /\ score_out = IdleScore
    /\ EngineIdle /\ AgentIdle /\ MatchIdle /\ ReviewIdle /\ NoTasks /\ NoApprovals

\* the severity, risk-score and framework steps of detect's loop body
Score ==
    /\ ~score_out.done
    /\ LET severity == _determine_severity(score_in.pv, score_in.rule)
           violation == [severity |-> severity,
                         rule_type |-> get(score_in.pv, "type", None),
                         violation_count |-> get(score_in.pv, "violation_count", 1)]
           scored == [risk_score |-> _calculate_risk_score(violation)] @@ violation
       IN  score_out' = [done |-> TRUE,
                         severity |-> severity,
                         risk_score |-> scored.risk_score,
                         violation_count |-> violation.violation_count,
                         frameworks |-> _map_to_frameworks(scored)]
    /\ UNCHANGED <<score_in, engine_vars, agent_vars, match_vars,
                   review_vars, task_vars, approval_vars>>

NextSeverity == Score

SpecSeverity == InitSeverity /\ [][NextSeverity]_vars

-----------------------------------------------------------------------------
(* SpecDetect: one detect call on every scan result of at most MaxHits     *)
(* entries drawn from DetectHits                                           *)

MaxHits == 3

\* DetectCall keeping only the violations of the last call in
\* detected_violations
DetectCallKeepingLast ==
    /\ LET found == detect(scan_results, rules, uuid_count, clock)
       IN  /\ returned' = found
           /\ detected_violations' = found
           /\ uuid_count' = uuid_count + Len(found)
    /\ detect_log' = Append(detect_log, [results |-> scan_results,
                                        first_uuid |-> uuid_count])
    /\ UNCHANGED <<scan_results, rules, clock>>

\* ViolationEngine.detect as a step: the list is returned and appended to
\* detected_violations
DetectCall ==
    /\ LET found == detect(scan_results, rules, uuid_count, clock)
       IN  /\ returned' = found
           /\ detected_violations' = detected_violations \o found
           /\ uuid_count' = uuid_count + Len(found)
    /\ detect_log' = Append(detect_log, [results |-> scan_results,
                                        first_uuid |-> uuid_count])
    /\ UNCHANGED <<scan_results, rules, clock>>

DeclaredRule == [id |-> "r1", type |-> "custom", text |-> "rule one",
                 severity |-> "critical"]
PlainRule == [id |-> "r2", type |-> "data_retention", text |-> "rule two"]

DetectRuleLists == {<<DeclaredRule, PlainRule>>, <<PlainRule>>}

DetectHits ==
    {[type |-> "scan_error", table |-> "users", rule_id |-> "r2", error |-> "boom"],
     [type |-> "data_encryption", table |-> "users", column |-> "ssn",
      rule_id |-> "r2", rule_text |-> "rule two", details |-> "plaintext"],
     [type |-> "data_retention", table |-> "users", column |-> "created_at",
      rule_id |-> "r2", rule_text |-> "rule two", violation_count |-> 5,
      details |-> "old"],
     [type |-> "data_retention", table |-> "orders", column |-> "order_date",
      rule_id |-> "r2", rule_text |-> "rule two", violation_count |-> 5,
      details |-> "old"],
     [type |-> "audit_logging", table |-> "orders", rule_id |-> "r2",
      rule_text |-> "rule two", details |-> "no audit", requires_review |-> TRUE],
     [type |-> "custom", table |-> "orders", rule_id |-> "r1",
      rule_text |-> "rule one", violation_count |-> 150,
      sql_condition |-> "amount < 0", details |-> "matching"],
     [type |-> "data_access", table |-> "users", columns |-> <<"password", "api_key">>,
      rule_id |-> "r3", details |-> "sensitive", requires_review |-> TRUE],
     [table |-> "users", rule_id |-> "r2"],
     [type |-> "consent", table |-> "users", rule_id |-> "r2", violation_count |-> 0],
     [type |-> "data_masking", table |-> "users", column |-> "email",
      rule_id |-> "r1", details |-> "unmasked"]}

InitDetect ==
    /\ rules \in DetectRuleLists
    /\ scan_results \in
          {[scan_id |-> 0]}
            \cup {[scan_id |-> 0, potential_violations |-> pvs] :
                     pvs \in SeqUpTo(DetectHits, MaxHits)}
    /\ detected_violations = <<>>
    /\ uuid_count = 0
    /\ returned = <<>>
    /\ detect_log = <<>>
    /\ clock = 0
    /\ ScoreIdle /\ AgentIdle /\ MatchIdle /\ ReviewIdle /\ NoTasks /\ NoApprovals

DetectOnce ==
    /\ detect_log = <<>>
    /\ DetectCall
    /\ UNCHANGED <<score_vars, agent_vars, match_vars,
                   review_vars, task_vars, approval_vars>>

NextDetect == DetectOnce

SpecDetect == InitDetect /\ [][NextDetect]_vars

-----------------------------------------------------------------------------
(* SpecRescore: up to MaxDetectCalls detect calls on one engine, each on a *)
(* scan result of RescoreResults, the clock advancing in between           *)

MaxDetectCalls == 2
MaxClock == 1

EncryptionHit == [type |-> "data_encryption", table |-> "users", column |-> "ssn",
                  rule_id |-> "r2", details |-> "plaintext"]
RetentionHit == [type |-> "data_retention", table |-> "users",
                 column |-> "created_at", rule_id |-> "r1", rule_text |-> "rule one",
                 violation_count |-> 5, details |-> "old"]
ErrorHit == [type |-> "scan_error", table |-> "users", rule_id |-> "r2",
             error |-> "boom"]

RescoreResults ==
    {[scan_id |-> id, potential_violations |-> pvs] :
        id \in 0..MaxClock,
        pvs \in {<<EncryptionHit>>,
                 <<RetentionHit, EncryptionHit, EncryptionHit>>,
                 <<ErrorHit, RetentionHit>>}}

InitRescore ==
    /\ rules = <<DeclaredRule, PlainRule>>
    /\ scan_results \in RescoreResults
    /\ detected_violations = <<>>
    /\ uuid_count = 0
    /\ returned = <<>>
    /\ detect_log = <<>>
    /\ clock = 0
    /\ ScoreIdle /\ AgentIdle /\ MatchIdle /\ ReviewIdle /\ NoTasks /\ NoApprovals

\* a further detect call on the same engine
DetectAgain ==
    /\ Len(detect_log) < MaxDetectCalls
    /\ DetectCall
    /\ UNCHANGED <<score_vars, agent_vars, match_vars,
                   review_vars, task_vars, approval_vars>>

\* the caller holds another scan result
NewScanResults ==
    /\ Len(detect_log) \in 1..(MaxDetectCalls - 1)
    /\ scan_results' \in RescoreResults \ {scan_results}
    /\ UNCHANGED <<detected_violations, uuid_count, rules, returned, detect_log,
                   clock, score_vars, agent_vars, match_vars,
                   review_vars, task_vars, approval_vars>>

\* time passes
Tick ==
    /\ clock < MaxClock
    /\ clock' = clock + 1
    /\ UNCHANGED <<detected_violations, uuid_count, scan_results, rules, returned,
                   detect_log, score_vars, agent_vars, match_vars,
                   review_vars, task_vars, approval_vars>>

NextRescore == DetectAgain \/ NewScanResults \/ Tick

SpecRescore == InitRescore /\ [][NextRescore]_vars

-----------------------------------------------------------------------------
(* SpecMatch: _find_applicable_columns on every rule of at most            *)
(* MaxEntities entity hints and every column list of MatchColumnLists      *)

MaxEntities == 2

EntityHints == {"users.ssn", "ssn", "Email", "orders.total", "a.b.c"}

MatchColumnLists ==
    {<<"id", "ssn", "Email">>, <<"total", "api_key", "b.c">>, <<>>}

MatchRuleTypes == {"data_encryption", "data_masking", "consent", "other"}

InitMatch ==
    /\ match_in \in
          {[done |-> FALSE, rule |-> rule, columns |-> columns] :
              rule \in {[type |-> t] : t \in MatchRuleTypes}
                         \cup {[type |-> t, entities |-> e] :
                                  t \in MatchRuleTypes,
                                  e \in SeqUpTo(EntityHints, MaxEntities)},
              columns \in MatchColumnLists}
    /\ match_out = IdleMatch
    /\ EngineIdle /\ AgentIdle /\ ScoreIdle /\ ReviewIdle /\ NoTasks /\ NoApprovals

Match ==
    /\ ~match_out.done
    /\ match_out' = [done |-> TRUE,
                     applicable |->
                        _find_applicable_columns(match_in.rule, match_in.columns)]
    /\ UNCHANGED <<match_in, engine_vars, agent_vars, score_vars,
                   review_vars, task_vars, approval_vars>>

NextMatch == Match

SpecMatch == InitMatch /\ [][NextMatch]_vars

-----------------------------------------------------------------------------
(* The steps of DatabaseScanner.scan.  The scan awaits the connector at    *)
(* every query, so a call is a sequence of steps: one per (table, rule)    *)
(* check, one per table skipped or finished, one to finish.                *)

\* what the store can answer to a counting query and to its retry
CountAnswers ==
    {<<Rows(<<0>>), Failed>>, <<Rows(<<5>>), Failed>>, <<Rows(<<150>>), Failed>>,
     <<Rows(<<>>), Failed>>, <<Failed, Rows(<<5>>)>>, <<Failed, Failed>>}

\* what the store can answer to a sampling query
SampleAnswers ==
    {<<Failed>>, <<Rows(<<>>)>>, <<Rows(<<"123456789">>)>>,
     <<Rows(<<"***@example.com">>)>>,
     <<Rows(<<"***@example.com", "alice@example.com">>)>>}

\* the answers the store can give to the queries of one check
Answers(rule, columns, is_sql) ==
    [QueriedColumns(rule, columns, is_sql) ->
        IF CheckerFor(rule) \in {"data_retention", "age_restriction", "sql_condition"}
        THEN CountAnswers ELSE SampleAnswers]

ScanTable == scan_run.tables_to_scan[scan_run.table]
ScanRule == scan_run.rules[scan_run.rule]
InTable == scan_run.pc = "scanning" /\ scan_run.table <= Len(scan_run.tables_to_scan)

\* scan(rules, tables) is called: scan id, table list and schema are taken
ScanBegin(rule_list, tables) ==
    /\ db_scanner # None
    /\ scan_run.pc = "idle"
    /\ scan_run' = scan_start(rule_list, tables, database, clock)
    /\ checked' = <<>>

\* ScanSkipTable recording the absent table as scanned
ScanSkipTableRecorded ==
    /\ InTable
    /\ ~InList(ScanTable, scan_run.all_tables)
    /\ scan_run' = [scan_run EXCEPT !.table = @ + 1,
                                    !.tables_scanned = Append(@, ScanTable)]
    /\ UNCHANGED checked

\* `if table not in all_tables: continue`
ScanSkipTable ==
    /\ InTable
    /\ ~InList(ScanTable, scan_run.all_tables)
    /\ scan_run' = [scan_run EXCEPT !.table = @ + 1]
    /\ UNCHANGED checked

\* the loop body after the check: `done` is logged and its entries are added
\* to those of the table
ScanChecked(done, answers, count_answers) ==
    LET predicate_answers ==
          IF done.checker = "sql_condition" THEN <<answers["*"][1]>> ELSE <<>>
    IN  /\ checked' = Append(checked,
                             [predicate_answers |-> predicate_answers,
                              count_answers |-> count_answers] @@ done)
        /\ scan_run' =
              IF done.propagated THEN [scan_run EXCEPT !.pc = "raised"]
              ELSE [scan_run EXCEPT
                       !.rule = @ + 1,
                       !.table_results = @ \o done.violations]

\* _scan_table's loop body: one rule checked against the table, the store
\* answering the queries of the check with `answers`; the check is logged with
\* the answer given to the count query of _check_sql_condition, if it ran,
\* and with count_answers, the answers to the count queries of the retention
\* and age checkers that the caller wants to keep
ScanCheckLogged(answers, count_answers) ==
    /\ InTable
    /\ InList(ScanTable, scan_run.all_tables)
    /\ scan_run.rule <= Len(scan_run.rules)
    /\ ScanChecked(_check_rule_against_table(ScanTable, ScanRule,
                                             schema_columns(database, ScanTable),
                                             answers, database.is_sql),
                   answers, count_answers)

ScanCheckWith(answers) == ScanCheckLogged(answers, <<>>)

\* the check on a store that answers in any way
ScanCheck ==
    /\ InTable
    /\ scan_run.rule <= Len(scan_run.rules)
    /\ \E answers \in Answers(ScanRule, schema_columns(database, ScanTable),
                              database.is_sql) :
          ScanCheckWith(answers)

\* ScanTableDone keeping the entries of the table just scanned only
ScanTableDoneKeepingLast ==
    /\ InTable
    /\ InList(ScanTable, scan_run.all_tables)
    /\ scan_run.rule > Len(scan_run.rules)
    /\ scan_run' = [scan_run EXCEPT
                       !.tables_scanned = Append(@, ScanTable),
                       !.potential_violations = scan_run.table_results,
                       !.table_results = <<>>,
                       !.table = @ + 1,
                       !.rule = 1]
    /\ UNCHANGED checked

\* _scan_table returns: the table is recorded with its results
ScanTableDone ==
    /\ InTable
    /\ InList(ScanTable, scan_run.all_tables)
    /\ scan_run.rule > Len(scan_run.rules)
    /\ scan_run' = [scan_run EXCEPT
                       !.tables_scanned = Append(@, ScanTable),
                       !.potential_violations = @ \o scan_run.table_results,
                       !.table_results = <<>>,
                       !.table = @ + 1,
                       !.rule = 1]
    /\ UNCHANGED checked

\* ScanReturn keeping in the history the entry of the returning scan only
ScanReturnReplacingHistory ==
    /\ scan_run.pc = "scanning"
    /\ scan_run.table > Len(scan_run.tables_to_scan)
    /\ scan_history' = <<history_entry(scan_run, clock)>>
    /\ scan_results' = [scan_id |-> scan_run.scan_id,
                        potential_violations |-> scan_run.potential_violations]
    /\ scan_run' = [scan_run EXCEPT !.pc = "returned"]
    /\ UNCHANGED checked

\* the scan is stored in the history and its result returned
ScanReturn ==
    /\ scan_run.pc = "scanning"
    /\ scan_run.table > Len(scan_run.tables_to_scan)
    /\ scan_history' = Append(scan_history, history_entry(scan_run, clock))
    /\ scan_results' = [scan_id |-> scan_run.scan_id,
                        potential_violations |-> scan_run.potential_violations]
    /\ scan_run' = [scan_run EXCEPT !.pc = "returned"]
    /\ UNCHANGED checked

-----------------------------------------------------------------------------
(* SpecScan: one scan of a store of ScanDatabases under a rule list of     *)
(* ScanRuleLists, the store answering each query in every way              *)

RetentionRule ==
    [id |-> "ret", type |-> "data_retention",
     text |-> "Delete records after 30 days",
     retention_value |-> "30", retention_unit |-> "days",
     sql_condition |-> "created_at < CURRENT_DATE - INTERVAL '30 days'"]
WordRetentionRule ==
    [RetentionRule EXCEPT !.id = "ret_word", !.retention_value = "thirty"]
EncryptionRule ==
    [id |-> "enc", type |-> "data_encryption",
     text |-> "Sensitive data must be encrypted"]
MaskingRule ==
    [id |-> "mask", type |-> "data_masking", text |-> "Emails must be masked"]
AuditRule ==
    [id |-> "audit", type |-> "audit_logging", text |-> "Changes must be logged"]
EntityAuditRule ==
    [id |-> "audit_total", type |-> "audit_logging",
     text |-> "Changes to totals must be logged", entities |-> <<"orders.total">>]
AccessRule ==
    [id |-> "acc", type |-> "data_access", text |-> "Restrict access to SSNs",
     entities |-> <<"users.ssn", "ssn">>]
AgeRule ==
    [id |-> "age", type |-> "age_restriction",
     text |-> "Users must be at least 13 years old"]
NoTextAgeRule == [id |-> "age_none", type |-> "age_restriction", text |-> None]
GeoRule ==
    [id |-> "geo", type |-> "geographic_restriction",
     text |-> "EU data stays in the EU"]
NoTextGeoRule ==
    [id |-> "geo_none", type |-> "geographic_restriction", text |-> None]
CustomRule ==
    [id |-> "neg", type |-> "custom", text |-> "Totals are never negative",
     sql_condition |-> "total < 0"]
ConsentRule ==
    [id |-> "consent", type |-> "consent", text |-> "Marketing needs consent"]

ScanRuleLists ==
    {<<EncryptionRule, RetentionRule, AuditRule>>,
     <<WordRetentionRule, NoTextAgeRule, CustomRule>>,
     <<MaskingRule, NoTextGeoRule, AccessRule>>,
     <<AgeRule, GeoRule, ConsentRule>>,
     <<EntityAuditRule>>,
     <<>>}

MainDatabase ==
    [is_sql |-> TRUE,
     tables |->
        <<[name |-> "users", readable |-> TRUE,
           columns |-> <<"id", "ssn", "email", "dob", "created_at">>],
          [name |-> "orders", readable |-> TRUE,
           columns |-> <<"order_id", "total", "country">>],
          [name |-> "legacy", readable |-> FALSE, columns |-> <<"ssn">>]>>]
DocumentDatabase == [MainDatabase EXCEPT !.is_sql = FALSE]

ScanDatabases == {MainDatabase, DocumentDatabase}

\* the `tables` argument: <<>> for None
ScanTableArgs == {<<>>, <<"orders", "missing", "users">>}

InitScan ==
    /\ rules \in ScanRuleLists
    /\ database \in ScanDatabases
    /\ db_connector = "main"
    /\ db_scanner = "main"
    /\ last_connect = "true"
    /\ scan_history = <<>>
    /\ violations = <<>>
    /\ agent_pc = "idle"
    /\ agent_call = NoCall
    /\ scan_run = NoScan
    /\ checked = <<>>
    /\ scan_results = NoResults
    /\ detected_violations = <<>>
    /\ uuid_count = 0
    /\ returned = <<>>
    /\ detect_log = <<>>
    /\ clock = 0
    /\ ScoreIdle /\ MatchIdle /\ ReviewIdle /\ NoTasks /\ NoApprovals

ScanUnchanged ==
    UNCHANGED <<detected_violations, uuid_count, rules, returned, detect_log, clock,
                db_connector, db_scanner, last_connect, violations, agent_pc,
                agent_call, database, score_vars, match_vars,
                   review_vars, task_vars, approval_vars>>

ScanCalled ==
    /\ \E tables \in ScanTableArgs : ScanBegin(rules, tables)
    /\ UNCHANGED <<scan_history, scan_results>>
    /\ ScanUnchanged

ScanSkips == ScanSkipTable /\ UNCHANGED <<scan_history, scan_results>> /\ ScanUnchanged
ScanChecks == ScanCheck /\ UNCHANGED <<scan_history, scan_results>> /\ ScanUnchanged
ScanLeavesTable ==
    ScanTableDone /\ UNCHANGED <<scan_history, scan_results>> /\ ScanUnchanged
ScanReturns == ScanReturn /\ ScanUnchanged

NextScan == ScanCalled \/ ScanSkips \/ ScanChecks \/ ScanLeavesTable \/ ScanReturns

SpecScan == InitScan /\ [][NextScan]_vars

-----------------------------------------------------------------------------
(* SpecFallback: one scan of a table with two date columns and two birth   *)
(* date columns under a retention rule, an age rule or both, every query   *)
(* answered in any way; each check is logged with the answers it was given *)

FallbackDatabase ==
    [is_sql |-> TRUE,
     tables |-> <<[name |-> "users", readable |-> TRUE,
                   columns |-> <<"created_at", "updated_at", "birthday", "dob">>]>>]

FallbackDatabases ==
    {FallbackDatabase, [FallbackDatabase EXCEPT !.is_sql = FALSE]}

FallbackRuleLists == {<<RetentionRule>>, <<AgeRule>>, <<RetentionRule, AgeRule>>}

InitFallback ==
    /\ rules \in FallbackRuleLists
    /\ database \in FallbackDatabases
    /\ db_connector = "main"
    /\ db_scanner = "main"
    /\ last_connect = "true"
    /\ scan_history = <<>>
    /\ violations = <<>>
    /\ agent_pc = "idle"
    /\ agent_call = NoCall
    /\ scan_run = NoScan
    /\ checked = <<>>
    /\ scan_results = NoResults
    /\ detected_violations = <<>>
    /\ uuid_count = 0
    /\ returned = <<>>
    /\ detect_log = <<>>
    /\ clock = 0
    /\ ScoreIdle /\ MatchIdle /\ ReviewIdle /\ NoTasks /\ NoApprovals

FallbackScanChecks ==
    /\ InTable
    /\ scan_run.rule <= Len(scan_run.rules)
    /\ \E answers \in Answers(ScanRule, schema_columns(database, ScanTable),
                              database.is_sql) :
          ScanCheckLogged(answers, answers)
    /\ UNCHANGED <<scan_history, scan_results>>
    /\ ScanUnchanged

NextFallback ==
    ScanCalled \/ ScanSkips \/ FallbackScanChecks \/ ScanLeavesTable \/ ScanReturns

SpecFallback == InitFallback /\ [][NextFallback]_vars

-----------------------------------------------------------------------------
(* SpecScenario: one scan of a store whose rows are given, under the rules *)
(* of the specification's scenarios and their variants.  A table of such a *)
(* store has `data`, the values of each column row by row (a date as its   *)
(* age in days), and `matching`, the number of its rows a rule's           *)
(* sql_condition holds of.                                                 *)

\* SELECT COUNT(*) ... WHERE "{date_col}" < CURRENT_DATE - INTERVAL '{days} days'
CountOlder(ages, days) == Cardinality({i \in 1..Len(ages) : ages[i] > days})

\* SELECT COUNT(*) ... WHERE EXTRACT(YEAR FROM AGE(CURRENT_DATE, "{col}"::date)) < {min_age}
CountYounger(ages, years) ==
    Cardinality({i \in 1..Len(ages) : ages[i] \div 365 < years})

\* ... LIMIT n
Limit(rows, n) == SubSeq(rows, 1, IF Len(rows) < n THEN Len(rows) ELSE n)

\* SELECT DISTINCT: the first occurrence of every value
Distinct(rows) ==
    LET RECURSIVE From(_)
        From(i) ==
            IF i > Len(rows) THEN <<>>
            ELSE (IF \A j \in 1..(i - 1) : rows[j] # rows[i]
                  THEN <<rows[i]>> ELSE <<>>) \o From(i + 1)
    IN  From(1)

\* the table of a store
StoredTable(db, table) ==
    db.tables[CHOOSE i \in 1..Len(db.tables) : db.tables[i].name = table]

\* what a store with given rows answers to the queries of one check
StoredAnswers(db, table, rule, columns) ==
    LET stored == StoredTable(db, table)
        checker == CheckerFor(rule)
    IN  [col \in QueriedColumns(rule, columns, db.is_sql) |->
           CASE checker = "data_retention" ->
                  <<Rows(<<CountOlder(stored.data[col], retention_days(rule))>>),
                    Failed>>
             [] checker = "age_restriction" ->
                  <<Rows(<<CountYounger(stored.data[col], min_age(rule))>>), Failed>>
             [] checker \in {"data_encryption", "data_masking"} ->
                  <<Rows(Limit(stored.data[col], 10))>>
             [] checker = "geographic_restriction" ->
                  <<Rows(Limit(Distinct(stored.data[col]), 50))>>
             [] OTHER -> <<Rows(<<stored.matching>>), Failed>>]

\* the retention rule of the scenario: category, value and unit, nothing else
ScenarioRetentionRule ==
    [type |-> "data_retention", retention_value |-> "90", retention_unit |-> "days"]

\* the access-control rule of the scenario: a category, nothing else
ScenarioAccessRule == [type |-> "data_access"]

\* the encryption rule of the scenario
ScenarioEncryptionRule == [type |-> "data_encryption"]

\* the scenario rules as RuleExtractor or a caller may complete them
ScenarioRules ==
    {[type |-> "data_retention", retention_value |-> value, retention_unit |-> unit] :
        value \in {"30", "90", "120"}, unit \in {"days", "months"}}
    \cup {[id |-> "ret", type |-> "data_retention", retention_value |-> value,
           retention_unit |-> "days",
           sql_condition |-> "created_at < CURRENT_DATE - INTERVAL '90 DAYS'"] :
            value \in {"30", "90", "120"}}
    \cup {ScenarioAccessRule,
          [id |-> "acc", type |-> "data_access", entities |-> <<"accounts.password">>],
          [id |-> "acc", type |-> "data_access", sql_condition |-> "1 = 1"]}
    \cup {ScenarioEncryptionRule,
          [id |-> "enc", type |-> "data_encryption", entities |-> <<"ssn">>],
          [id |-> "enc", type |-> "data_encryption",
           entities |-> <<"people.ssn", "ssn">>]}
    \cup {[id |-> "neg", type |-> "custom", sql_condition |-> "balance < 0"]}
    \cup {GeoRule}

\* the table of the retention scenario: one date-like column, a row dated 120
\* days ago and a row dated 30 days ago
EventsTable(ages) ==
    [name |-> "events", readable |-> TRUE, columns |-> <<"created_at">>,
     data |-> [created_at |-> ages], matching |-> 0]

\* the table of the access-control scenario
AccountsTable ==
    [name |-> "accounts", readable |-> TRUE,
     columns |-> <<"id", "password", "api_key">>,
     data |-> [id |-> <<"1">>, password |-> <<"hunter2">>, api_key |-> <<"k-1">>],
     matching |-> 1]

\* the table of the encryption scenario: the sampled values of column ssn
PeopleTable(ssns) ==
    [name |-> "people", readable |-> TRUE, columns |-> <<"name", "ssn">>,
     data |-> [name |-> <<"alice">>, ssn |-> ssns], matching |-> 0]

\* a table with two geography-like columns: the countries and the cities of
\* its rows
OfficesTable(countries) ==
    [name |-> "offices", readable |-> TRUE, columns |-> <<"country", "city">>,
     data |-> [country |-> countries, city |-> <<"Vienna", "Graz">>],
     matching |-> 0]

TwelveCountries ==
    <<"AT", "BE", "CZ", "DE", "DE", "ES", "FR", "GR", "HU", "IT", "NL", "PL", "PT">>

ScenarioDatabases ==
    {[is_sql |-> TRUE, tables |-> <<t>>] :
        t \in {EventsTable(ages) : ages \in {<<120, 30>>, <<30>>, <<400, 120, 91, 90>>}}
               \cup {AccountsTable}
               \cup {PeopleTable(ssns) :
                        ssns \in {<<"123456789">>,
                                  <<"123456789", "987654321", "555443333">>,
                                  <<"9f86d081884c7d65", "123456789", "987654321">>,
                                  <<"9f86d081884c7d65">>}}
               \cup {OfficesTable(countries) :
                        countries \in {<<"AT", "AT", "DE">>, TwelveCountries, <<>>}}}

InitScenario ==
    /\ rules \in {<<rule>> : rule \in ScenarioRules}
    /\ database \in ScenarioDatabases
    /\ db_connector = "main"
    /\ db_scanner = "main"
    /\ last_connect = "true"
    /\ scan_history = <<>>
    /\ violations = <<>>
    /\ agent_pc = "idle"
    /\ agent_call = NoCall
    /\ scan_run = NoScan
    /\ checked = <<>>
    /\ scan_results = NoResults
    /\ detected_violations = <<>>
    /\ uuid_count = 0
    /\ returned = <<>>
    /\ detect_log = <<>>
    /\ clock = 0
    /\ ScoreIdle /\ MatchIdle /\ ReviewIdle /\ NoTasks /\ NoApprovals

ScenarioScanCalled ==
    /\ ScanBegin(rules, <<>>)
    /\ UNCHANGED <<scan_history, scan_results>>
    /\ ScanUnchanged

\* the check of a (table, rule) pair, answered from the rows of the store
ScenarioScanChecks ==
    /\ InTable
    /\ scan_run.rule <= Len(scan_run.rules)
    /\ ScanCheckWith(StoredAnswers(database, ScanTable, ScanRule,
                                   schema_columns(database, ScanTable)))
    /\ UNCHANGED <<scan_history, scan_results>>
    /\ ScanUnchanged

NextScenario ==
    ScenarioScanCalled \/ ScenarioScanChecks \/ ScanLeavesTable \/ ScanReturns

SpecScenario == InitScenario /\ [][NextScenario]_vars

-----------------------------------------------------------------------------
(* SpecOrder: one scan of a store of three tables whose rows are given,    *)
(* the rule list and the table list taken in every order                   *)

\* every order of a list
Orders(list) ==
    {[i \in 1..Len(list) |-> list[p[i]]] : p \in Permutations(1..Len(list))}

OrderDatabase ==
    [is_sql |-> TRUE,
     tables |-> <<EventsTable(<<120, 30>>), AccountsTable,
                  PeopleTable(<<"123456789">>)>>]

\* a rule that finds old rows, one that finds plaintext, one that finds
\* unrestricted sensitive columns, and one whose checker raises
OrderRules ==
    <<[id |-> "ret", type |-> "data_retention", retention_value |-> "90",
       retention_unit |-> "days"],
      [id |-> "enc", type |-> "data_encryption"],
      [id |-> "acc", type |-> "data_access"],
      WordRetentionRule>>

\* the `tables` argument: None, two tables, or four names of which one is
\* absent from the store and one is given twice
OrderTableArgs ==
    {<<>>} \cup Orders(<<"accounts", "events">>)
           \cup Orders(<<"people", "missing", "events", "people">>)

InitOrder ==
    /\ rules \in Orders(OrderRules)
    /\ database = OrderDatabase
    /\ db_connector = "main"
    /\ db_scanner = "main"
    /\ last_connect = "true"
    /\ scan_history = <<>>
    /\ violations = <<>>
    /\ agent_pc = "idle"
    /\ agent_call = NoCall
    /\ scan_run = NoScan
    /\ checked = <<>>
    /\ scan_results = NoResults
    /\ detected_violations = <<>>
    /\ uuid_count = 0
    /\ returned = <<>>
    /\ detect_log = <<>>
    /\ clock = 0
    /\ ScoreIdle /\ MatchIdle /\ ReviewIdle /\ NoTasks /\ NoApprovals

OrderScanCalled ==
    /\ \E tables \in OrderTableArgs : ScanBegin(rules, tables)
    /\ UNCHANGED <<scan_history, scan_results>>
    /\ ScanUnchanged

NextOrder ==
    OrderScanCalled \/ ScanSkips \/ ScenarioScanChecks \/ ScanLeavesTable
       \/ ScanReturns

SpecOrder == InitOrder /\ [][NextOrder]_vars

-----------------------------------------------------------------------------
(* SpecEndToEnd: one scan of a store whose rows are given under encryption *)
(* rules that declare a severity or none, followed by detect on its result *)

EndToEndRules ==
    {ScenarioEncryptionRule, [id |-> "enc", type |-> "data_encryption"]}
    \cup {[id |-> "enc", type |-> "data_encryption", severity |-> severity] :
             severity \in {"", None, "critical", "low"}}

EndToEndRuleLists ==
    {<<rule>> : rule \in EndToEndRules}
    \cup {<<[id |-> "enc", type |-> "data_encryption", severity |-> "critical"],
            [id |-> "enc2", type |-> "data_encryption"]>>,
          <<[id |-> "enc", type |-> "data_encryption", severity |-> "critical"],
            [id |-> "enc", type |-> "data_encryption"]>>}

InitEndToEnd ==
    /\ rules \in EndToEndRuleLists
    /\ database \in {db \in ScenarioDatabases :
                        db.tables[1].name \in {"people", "accounts"}}
    /\ db_connector = "main"
    /\ db_scanner = "main"
    /\ last_connect = "true"
    /\ scan_history = <<>>
    /\ violations = <<>>
    /\ agent_pc = "idle"
    /\ agent_call = NoCall
    /\ scan_run = NoScan
    /\ checked = <<>>
    /\ scan_results = NoResults
    /\ detected_violations = <<>>
    /\ uuid_count = 0
    /\ returned = <<>>
    /\ detect_log = <<>>
    /\ clock = 0
    /\ ScoreIdle /\ MatchIdle /\ ReviewIdle /\ NoTasks /\ NoApprovals

\* detect(scan_results, rules) on the result the scan returned
EndToEndDetects ==
    /\ scan_run.pc = "returned"
    /\ detect_log = <<>>
    /\ DetectCall
    /\ UNCHANGED <<score_vars, agent_vars, match_vars, review_vars, task_vars, approval_vars>>

NextEndToEnd ==
    ScenarioScanCalled \/ ScenarioScanChecks \/ ScanLeavesTable \/ ScanReturns
       \/ EndToEndDetects

SpecEndToEnd == InitEndToEnd /\ [][NextEndToEnd]_vars

-----------------------------------------------------------------------------
(* DataPolicyAgent: connect_database and scan_for_violations.  One caller  *)
(* drives the agent: a call is made when the previous one has returned.    *)

\* [r for r in self.rules if r['id'] in rules], or self.rules when no ids are given
rules_to_check(rule_list, rule_ids) ==
    IF rule_ids = <<>> THEN rule_list
    ELSE SelectSeq(rule_list, LAMBDA r : InList(r.id, rule_ids))

\* violations[:limit], the whole list when limit is None or 0
Limited(list, limit) ==
    IF limit = 0 THEN list
    ELSE SubSeq(list, 1, IF limit < Len(list) THEN limit ELSE Len(list))

\* connect_database(config): a new connector replaces the old one; only when
\* it connects is a new scanner, with an empty history, built on it
connect_database(store, config, connected) ==
    /\ agent_pc # "scanning"
    /\ db_connector' = config
    /\ last_connect' = IF connected THEN "true" ELSE "false"
    /\ IF connected
       THEN /\ db_scanner' = config
            /\ database' = store
            /\ scan_history' = <<>>
       ELSE UNCHANGED <<db_scanner, database, scan_history>>
    /\ agent_pc' = "idle"
    /\ UNCHANGED <<violations, agent_call, scan_run, checked>>

\* `if not self.db_scanner: raise RuntimeError(...)`
scan_for_violations_raises ==
    /\ agent_pc # "scanning"
    /\ db_scanner = None
    /\ agent_pc' = "raised"
    /\ UNCHANGED <<db_connector, db_scanner, last_connect, scan_history, violations,
                   agent_call, scan_run, database, checked>>

\* scan_for_violations(tables, rules, limit) up to its call of db_scanner.scan
scan_for_violations_begin(tables, rule_ids, limit) ==
    /\ agent_pc # "scanning"
    /\ db_scanner # None
    /\ agent_pc' = "scanning"
    /\ agent_call' = [tables |-> tables, rules |-> rule_ids, limit |-> limit]
    /\ ScanBegin(rules_to_check(rules, rule_ids), tables)
    /\ UNCHANGED <<db_connector, db_scanner, last_connect, scan_history, violations,
                   database>>

\* scan_for_violations after the scan: detect, explain, limit, store.  The
\* explanations are set on the dicts that detected_violations holds too.
scan_for_violations_end ==
    /\ agent_pc = "scanning"
    /\ scan_run.pc = "returned"
    /\ LET found == detect(scan_results, scan_run.rules, uuid_count, clock)
           explained == [i \in 1..Len(found) |-> Explained(found[i])]
           kept == Limited(explained, agent_call.limit)
       IN  /\ detected_violations' = detected_violations \o explained
           /\ uuid_count' = uuid_count + Len(found)
           /\ violations' = violations \o kept
           /\ returned' = kept
    /\ detect_log' = Append(detect_log, [results |-> scan_results,
                                        first_uuid |-> uuid_count])
    /\ agent_pc' = "idle"
    /\ agent_call' = NoCall
    /\ scan_run' = NoScan
    /\ UNCHANGED <<scan_results, rules, clock, db_connector, db_scanner,
                   last_connect, scan_history, database, checked>>

-----------------------------------------------------------------------------
(* Spec: an agent with the rules AgentRules, connecting to the stores of   *)
(* AgentStores and scanning them, at most MaxScans scans being completed   *)

MaxScans == 2

AgentRules == <<EncryptionRule, AuditRule>>

AgentStores ==
    [main |-> [is_sql |-> TRUE,
               tables |-> <<[name |-> "users", readable |-> TRUE,
                             columns |-> <<"id", "ssn">>]>>],
     replica |-> [is_sql |-> TRUE,
                  tables |-> <<[name |-> "orders", readable |-> TRUE,
                                columns |-> <<"total">>]>>]]

\* the arguments tried: all tables or one, all rules or one, no limit or one
AgentTableArgs == {<<>>, <<"users">>}
AgentRuleArgs == {<<>>, <<"audit">>}
AgentLimits == {0, 1}

Init ==
    /\ rules = AgentRules
    /\ detected_violations = <<>>
    /\ uuid_count = 0
    /\ scan_results = NoResults
    /\ returned = <<>>
    /\ detect_log = <<>>
    /\ clock = 0
    /\ AgentIdle /\ ScoreIdle /\ MatchIdle /\ ReviewIdle /\ NoTasks /\ NoApprovals

Connects ==
    /\ \E config \in DOMAIN AgentStores, connected \in BOOLEAN :
          connect_database(AgentStores[config], config, connected)
    /\ UNCHANGED <<engine_vars, score_vars, match_vars,
                   review_vars, task_vars, approval_vars>>

ScanRefused ==
    /\ scan_for_violations_raises
    /\ UNCHANGED <<engine_vars, score_vars, match_vars,
                   review_vars, task_vars, approval_vars>>

ScanStarts ==
    /\ Len(detect_log) < MaxScans
    /\ \E tables \in AgentTableArgs, rule_ids \in AgentRuleArgs, limit \in AgentLimits :
          scan_for_violations_begin(tables, rule_ids, limit)
    /\ UNCHANGED <<engine_vars, score_vars, match_vars,
                   review_vars, task_vars, approval_vars>>

AgentUnchanged ==
    UNCHANGED <<detected_violations, uuid_count, rules, returned, detect_log, clock,
                db_connector, db_scanner, last_connect, violations, agent_pc,
                agent_call, database, score_vars, match_vars,
                   review_vars, task_vars, approval_vars>>

ScanSteps ==
    /\ agent_pc = "scanning"
    /\ \/ (ScanSkipTable \/ ScanCheck \/ ScanTableDone)
             /\ UNCHANGED <<scan_history, scan_results>>
       \/ ScanReturn
    /\ AgentUnchanged

ScanEnds ==
    /\ scan_for_violations_end
    /\ UNCHANGED <<score_vars, match_vars,
                   review_vars, task_vars, approval_vars>>

Next == Connects \/ ScanRefused \/ ScanStarts \/ ScanSteps \/ ScanEnds \/ Tick

Spec == Init /\ [][Next]_vars

-----------------------------------------------------------------------------
(* ReviewWorkflow, DataPolicyAgent.submit_for_review and                   *)
(* process_review_decision, and the route POST /violations/{id}/review.    *)
(* A review holds the violation dicts themselves, which agent.violations   *)
(* and ViolationEngine.detected_violations hold too: a write to one is     *)
(* seen through all of them, so both lists are rewritten together.  Of a   *)
(* review the id, violation_ids, status and decisions are kept; reviewers, *)
(* priority, notes, timestamps, summary and audit_trail are not read by    *)
(* any step modelled here.                                                 *)

\* ReviewDecision, with the violation status process_decision sets for each
ReviewDecision ==
    [approve |-> "confirmed", reject |-> "false_positive", escalate |-> "escalated"]

\* `ReviewDecision(decision.lower())` does not raise ValueError
IsReviewDecision(decision) == Lower(decision) \in DOMAIN ReviewDecision

\* the ids in a list of ids, as a set
IdSet(ids) == {ids[i] : i \in 1..Len(ids)}

\* create_review(violations): the review stored under a fresh uuid4
create_review(review_id, violations_to_review) ==
    [id |-> review_id,
     violation_ids |-> [i \in 1..Len(violations_to_review) |->
                           violations_to_review[i].id],
     status |-> "pending",
     decisions |-> <<>>]

\* the writes of process_decision to one violation of the review
DecidedViolation(v, decision, reviewer, comments, now) ==
    [review_status |-> decision, reviewed_at |-> now, reviewed_by |-> reviewer,
     review_comments |-> comments, status |-> ReviewDecision[decision]] @@ v

\* the writes of the route review_violation to the violation it found
RouteReviewedViolation(v, decision, reviewer, comments, now) ==
    [status |-> decision, reviewed_by |-> reviewer, reviewed_at |-> now,
     review_comments |-> comments] @@ v

\* the status of the review after a decision: escalated on escalate,
\* completed once the violation_ids of all its decisions cover the review
ReviewStatusAfter(review, decision, decisions) ==
    LET decided_ids == UNION {IdSet(decisions[i].violation_ids) :
                                 i \in 1..Len(decisions)}
    IN  IF decision = "escalate" THEN "escalated"
        ELSE IF IdSet(review.violation_ids) \subseteq decided_ids THEN "completed"
        ELSE review.status

\* ReviewWorkflow.process_decision; violation_ids <<>> stands for None (and for
\* the empty list, which is falsy as well)
process_decision(review_id, decision, comments, reviewer, violation_ids) ==
    IF review_id \notin 1..Len(review_workflow.reviews) \/ ~IsReviewDecision(decision)
    THEN /\ review_call' = [raised |-> "ValueError"]
         /\ UNCHANGED <<review_workflow, violations, detected_violations>>
    ELSE LET review == review_workflow.reviews[review_id]
             value == Lower(decision)
             affected_violations ==
               IF violation_ids # <<>> THEN violation_ids ELSE review.violation_ids
             decisions == Append(review.decisions,
                                 [decision |-> value, reviewer |-> reviewer,
                                  violation_ids |-> affected_violations])
             Write(list) ==
               [i \in 1..Len(list) |->
                   IF /\ InList(list[i].id, review.violation_ids)
                      /\ InList(list[i].id, affected_violations)
                   THEN DecidedViolation(list[i], value, reviewer, comments, clock)
                   ELSE list[i]]
         IN  /\ review_workflow' =
                   [reviews |->
                       [review_workflow.reviews EXCEPT ![review_id] =
                           [@ EXCEPT !.decisions = decisions,
                                     !.status = ReviewStatusAfter(review, value,
                                                                  decisions)]],
                    review_history |->
                       Append(review_workflow.review_history,
                              [review_id |-> review_id, decision |-> value,
                               reviewer |-> reviewer])]
             /\ violations' = Write(violations)
             /\ detected_violations' = Write(detected_violations)
             /\ review_call' = [raised |-> "None"]

\* DataPolicyAgent.submit_for_review(violation_ids)
submit_for_review(violation_ids) ==
    LET violations_to_review ==
          SelectSeq(violations, LAMBDA v : InList(v.id, violation_ids))
        review_id == Len(review_workflow.reviews) + 1
    IN  /\ review_workflow' =
              [review_workflow EXCEPT
                  !.reviews = Append(@, create_review(review_id,
                                                      violations_to_review))]
        /\ review_call' = [raised |-> "None"]
        /\ UNCHANGED <<violations, detected_violations>>

\* DataPolicyAgent.process_review_decision(review_id, decision, comments): the
\* workflow's decision with no reviewer and no violation_ids.  The loop that
\* follows compares each v['id'] with the dicts of result['violations'], never
\* with an id, so its body never runs
process_review_decision(review_id, decision, comments) ==
    process_decision(review_id, decision, comments, None, <<>>)

\* the route review_violation(violation_id, request): 404 when the agent holds
\* no such violation, else the request's decision is written as the status of
\* the violation of that id (uuids: there is one)
review_violation(violation_id, decision, reviewer, comments) ==
    IF \A i \in 1..Len(violations) : violations[i].id # violation_id
    THEN /\ review_call' = [raised |-> "HTTPException"]
         /\ UNCHANGED <<review_workflow, violations, detected_violations>>
    ELSE LET Write(list) ==
               [i \in 1..Len(list) |->
                   IF list[i].id = violation_id
                   THEN RouteReviewedViolation(list[i], decision, reviewer,
                                               comments, clock)
                   ELSE list[i]]
         IN  /\ violations' = Write(violations)
             /\ detected_violations' = Write(detected_violations)
             /\ review_call' = [raised |-> "None"]
             /\ UNCHANGED review_workflow

(* SpecReview: an agent that connects to a store with two columns holding  *)
(* plaintext secrets, scans it up to MaxReviewScans times, and is asked to *)
(* open up to MaxReviews reviews and to take up to MaxDecisions decisions  *)
(* through the workflow and the agent, and any number through the route    *)

MaxReviewScans == 1
MaxReviews == 1
MaxDecisions == 2

ReviewStore ==
    [is_sql |-> TRUE,
     tables |-> <<[name |-> "users", readable |-> TRUE,
                   columns |-> <<"id", "ssn", "password">>]>>]

\* decisions tried: the three of ReviewDecision, one in another case, one unknown
DecisionArgs == {"approve", "Reject", "escalate", "defer"}
RouteDecisionArgs == {"approve", "defer"}
ReviewerArgs == {"alice"}
\* uuids of violations: that of the first violation and one never drawn
ViolationIdArgs == {1, 9}
SubmitArgs == {<<1>>, <<1, 2>>}
PartialArgs == {<<>>, <<1>>}

InitReview == Init

ReviewConnects ==
    /\ db_connector = None
    /\ connect_database(ReviewStore, "main", TRUE)
    /\ UNCHANGED <<engine_vars, score_vars, match_vars, review_vars, task_vars, approval_vars>>

ReviewScanStarts ==
    /\ Len(detect_log) < MaxReviewScans
    /\ scan_for_violations_begin(<<>>, <<>>, 0)
    /\ UNCHANGED <<engine_vars, score_vars, match_vars, review_vars, task_vars, approval_vars>>

\* the scan's steps (all tables are scanned, so none is absent), every
\* sampling query answered with a plaintext value
ReviewScanSteps ==
    /\ agent_pc = "scanning"
    /\ \/ (\/ /\ InTable
              /\ scan_run.rule <= Len(scan_run.rules)
              /\ ScanCheckWith([c \in QueriedColumns(ScanRule,
                                         schema_columns(database, ScanTable),
                                         database.is_sql) |->
                                   <<Rows(<<"123456789">>)>>])
           \/ ScanTableDone)
             /\ UNCHANGED <<scan_history, scan_results>>
       \/ ScanReturn
    /\ AgentUnchanged

ReviewFrame ==
    UNCHANGED <<uuid_count, scan_results, rules, returned, detect_log, clock,
                db_connector, db_scanner, last_connect, scan_history, agent_pc,
                agent_call, scan_run, database, checked, score_vars, match_vars,
                task_vars, approval_vars>>

SubmitsForReview ==
    /\ Len(review_workflow.reviews) < MaxReviews
    /\ \E violation_ids \in SubmitArgs : submit_for_review(violation_ids)
    /\ ReviewFrame

WorkflowDecides ==
    /\ Len(review_workflow.review_history) < MaxDecisions
    /\ \E review_id \in 1..(MaxReviews + 1), decision \in DecisionArgs,
          reviewer \in ReviewerArgs, violation_ids \in PartialArgs :
          process_decision(review_id, decision, None, reviewer, violation_ids)
    /\ ReviewFrame

AgentDecides ==
    /\ Len(review_workflow.review_history) < MaxDecisions
    /\ \E review_id \in 1..(MaxReviews + 1), decision \in DecisionArgs :
          process_review_decision(review_id, decision, None)
    /\ ReviewFrame

RouteReviews ==
    /\ \E violation_id \in ViolationIdArgs, decision \in RouteDecisionArgs,
          reviewer \in ReviewerArgs :
          review_violation(violation_id, decision, reviewer, None)
    /\ ReviewFrame

NextReview ==
    \/ ReviewConnects \/ ReviewScanStarts \/ ReviewScanSteps \/ ScanEnds
    \/ SubmitsForReview \/ WorkflowDecides \/ AgentDecides \/ RouteReviews

SpecReview == InitReview /\ [][NextReview]_vars

-----------------------------------------------------------------------------
(* SpecConcurrent: up to MaxCalls scan calls on one scanner.  A call gives  *)
(* way to the others wherever it awaits the connector, so the steps of the *)
(* calls interleave in every way: scan_run and checked are those of the    *)
(* call that runs, tasks holds the others.                                  *)

MaxCalls == 2

\* the `tables` argument of the calls: None, or a table the store lacks
ConcurrentTableArgs == {<<>>, <<"missing">>}

InitConcurrent ==
    /\ rules = <<EncryptionRule>>
    /\ database = AgentStores.main
    /\ db_connector = "main"
    /\ db_scanner = "main"
    /\ last_connect = "true"
    /\ scan_history = <<>>
    /\ violations = <<>>
    /\ agent_pc = "idle"
    /\ agent_call = NoCall
    /\ scan_run = NoScan
    /\ checked = <<>>
    /\ scan_results = NoResults
    /\ detected_violations = <<>>
    /\ uuid_count = 0
    /\ returned = <<>>
    /\ detect_log = <<>>
    /\ clock = 0
    /\ ScoreIdle /\ MatchIdle /\ ReviewIdle /\ NoTasks /\ NoApprovals

\* every scan call made so far: the one that runs and the others
Calls == <<scan_run>> \o [i \in 1..Len(tasks) |-> tasks[i].run]

\* scan(rules, tables) is called and runs up to its first query
ConcurrentScanCalled ==
    /\ \E tables \in ConcurrentTableArgs : ScanBegin(rules, tables)
    /\ UNCHANGED <<scan_history, scan_results>>
    /\ ScanUnchanged

\* scan is called and connector.get_tables raises: the call ends there
ConcurrentScanRaises ==
    /\ db_scanner # None
    /\ scan_run.pc = "idle"
    /\ scan_run' = [NoScan EXCEPT !.pc = "raised"]
    /\ checked' = <<>>
    /\ UNCHANGED <<scan_history, scan_results>>
    /\ ScanUnchanged

\* another call is made while the one that ran awaits or after it ended
AnotherCall ==
    /\ scan_run.pc # "idle"
    /\ Len(tasks) + 1 < MaxCalls
    /\ tasks' = Append(tasks, [run |-> scan_run, checked |-> checked])
    /\ scan_run' = NoScan
    /\ checked' = <<>>
    /\ UNCHANGED <<engine_vars, score_vars, match_vars, review_vars, db_connector,
                   db_scanner, last_connect, scan_history, violations, agent_pc,
                   agent_call, database, approval_vars>>

\* the event loop resumes a call that awaits
Resume ==
    /\ scan_run.pc # "idle"
    /\ \E i \in 1..Len(tasks) :
          /\ tasks[i].run.pc = "scanning"
          /\ tasks' = [tasks EXCEPT ![i] = [run |-> scan_run, checked |-> checked]]
          /\ scan_run' = tasks[i].run
          /\ checked' = tasks[i].checked
    /\ UNCHANGED <<engine_vars, score_vars, match_vars, review_vars, db_connector,
                   db_scanner, last_connect, scan_history, violations, agent_pc,
                   agent_call, database, approval_vars>>

NextConcurrent ==
    ConcurrentScanCalled \/ ConcurrentScanRaises \/ AnotherCall \/ Resume
       \/ ScanSkips \/ ScanChecks \/ ScanLeavesTable \/ ScanReturns
       \/ Tick

SpecConcurrent == InitConcurrent /\ [][NextConcurrent]_vars

-----------------------------------------------------------------------------
(* ApprovalManager.  Of a request the severity, required_levels,           *)
(* escalate_to, approvals_received, status and the escalated flag are      *)
(* kept; approval_history, the timestamps and the texts are not read by    *)
(* any step modelled here.                                                 *)

\* ApprovalLevel
ApprovalLevel ==
    {"l1_data_steward", "l2_compliance_team", "l3_compliance_officer", "l4_executive"}

APPROVAL_MATRIX ==
    [critical |-> [required_levels |-> <<"l2_compliance_team", "l3_compliance_officer">>,
                   escalate_to |-> "l4_executive"],
     high |-> [required_levels |-> <<"l2_compliance_team">>,
               escalate_to |-> "l3_compliance_officer"],
     medium |-> [required_levels |-> <<"l1_data_steward">>,
                 escalate_to |-> "l2_compliance_team"],
     low |-> [required_levels |-> <<>>, escalate_to |-> "l1_data_steward"]]

\* the first of critical, high, medium, low that a violation has; else medium
_get_max_severity(violation_list) ==
    LET Has(severity) ==
          \E i \in 1..Len(violation_list) :
             get(violation_list[i], "severity", None) = severity
    IN  IF Has("critical") THEN "critical"
        ELSE IF Has("high") THEN "high"
        ELSE IF Has("medium") THEN "medium"
        ELSE IF Has("low") THEN "low"
        ELSE "medium"

create_approval_request(violation_list) ==
    LET max_severity == _get_max_severity(violation_list)
        approval_config == get(APPROVAL_MATRIX, max_severity, APPROVAL_MATRIX.medium)
    IN  /\ approvals' = Append(approvals,
                               [max_severity |-> max_severity,
                                required_levels |-> approval_config.required_levels,
                                escalate_to |-> approval_config.escalate_to,
                                approvals_received |-> <<>>,
                                status |-> "pending",
                                escalated |-> FALSE])
        /\ approval_call' = NoApprovalCall

\* the levels of the approving records
ApprovedLevels(approvals_received) ==
    {approvals_received[i].level :
        i \in {k \in 1..Len(approvals_received) : approvals_received[k].approved}}

\* the request after submit_approval has recorded the decision
Submitted(approval, approvals_received, approved) ==
    [approval EXCEPT
        !.approvals_received = approvals_received,
        !.status = IF approved
                   THEN (IF IdSet(approval.required_levels)
                              \subseteq ApprovedLevels(approvals_received)
                         THEN "approved" ELSE @)
                   ELSE "rejected"]

submit_approval(approval_id, approver, approver_level, approved) ==
    IF approval_id \notin 1..Len(approvals) \/ approver_level \notin ApprovalLevel
    THEN /\ approval_call' = [raised |-> "ValueError"]
         /\ UNCHANGED approvals
    ELSE /\ approvals' =
              [approvals EXCEPT ![approval_id] =
                  Submitted(@, Append(@.approvals_received,
                                      [approver |-> approver, level |-> approver_level,
                                       approved |-> approved]),
                            approved)]
         /\ approval_call' = NoApprovalCall

escalate_approval(approval_id) ==
    IF approval_id \notin 1..Len(approvals)
    THEN /\ approval_call' = [raised |-> "ValueError"]
         /\ UNCHANGED approvals
    ELSE /\ approvals' =
              [approvals EXCEPT ![approval_id] =
                  [@ EXCEPT !.required_levels =
                               IF InList(approvals[approval_id].escalate_to, @)
                               THEN @
                               ELSE Append(@, approvals[approval_id].escalate_to),
                            !.escalated = TRUE]]
         /\ approval_call' = NoApprovalCall

-----------------------------------------------------------------------------
(* SpecApproval: up to MaxApprovals requests, MaxSubmits decisions on each  *)

MaxApprovals == 1
MaxSubmits == 2

\* the violations of a request, by their severities
ApprovalViolationArgs ==
    {<<>>, <<[severity |-> "low"], [severity |-> "high"]>>}
      \cup {<<[severity |-> severity]>> :
               severity \in {"critical", "high", "medium", "low", "urgent"}}

ApproverLevelArgs == {"l1_data_steward", "l2_compliance_team", "l4_executive", "manager"}

ApprovalIdArgs == {1, 9}

InitApproval == Init

ApprovalFrame ==
    UNCHANGED <<engine_vars, score_vars, agent_vars, match_vars, review_vars,
                task_vars>>

CreatesApproval ==
    /\ Len(approvals) < MaxApprovals
    /\ \E violation_list \in ApprovalViolationArgs :
          create_approval_request(violation_list)
    /\ ApprovalFrame

SubmitsApproval ==
    /\ \E approval_id \in ApprovalIdArgs, approver_level \in ApproverLevelArgs,
          approved \in BOOLEAN :
          /\ approval_id \in 1..Len(approvals) =>
                Len(approvals[approval_id].approvals_received) < MaxSubmits
          /\ submit_approval(approval_id, "bob", approver_level, approved)
    /\ ApprovalFrame

EscalatesApproval ==
    /\ \E approval_id \in ApprovalIdArgs : escalate_approval(approval_id)
    /\ ApprovalFrame

NextApproval == CreatesApproval \/ SubmitsApproval \/ EscalatesApproval

SpecApproval == InitApproval /\ [][NextApproval]_vars

-----------------------------------------------------------------------------
(* Claims on the scoring functions (SpecSeverity) *)

ScoredHitCount == get(score_in.pv, "violation_count", 1)
ScoredDeclared == get(score_in.rule, "severity", None)

\* the resolution order as the specification states it
StatedSeverity ==
    CASE Truthy(ScoredDeclared) -> ScoredDeclared
      [] score_in.pv.type \in {"data_encryption", "age_restriction"} ->
            IF ScoredHitCount > 100 THEN "critical" ELSE "high"
      [] score_in.pv.type \in
            {"data_retention", "data_access", "geographic_restriction"} -> "high"
      [] score_in.pv.type \in {"consent", "data_masking", "notification"} -> "medium"
      [] score_in.pv.type = "audit_logging" -> "low"
      [] OTHER -> "medium"

\* C6: severity is the rule's declared severity when it has one; otherwise
\* encryption and age-restriction hits are critical above 100 hits and high up
\* to 100 (150 gives critical, 10 and 100 give high), retention / access /
\* geographic hits are high, consent / masking / notification hits medium,
\* audit-logging hits low, and everything else medium.
C6_SeverityResolution ==
    score_out.done =>
        /\ score_out.severity = StatedSeverity
        /\ (/\ ~Truthy(ScoredDeclared)
            /\ score_in.pv.type = "data_encryption"
            /\ ScoredHitCount \in {10, 100, 150})
           => score_out.severity = (IF ScoredHitCount = 150 THEN "critical" ELSE "high")

C6_Witness ==
    /\ score_out.done
    /\ score_in.rule = EmptyDict
    /\ score_in.pv = [type |-> "data_encryption", violation_count |-> 100]
    /\ score_out.severity = "high"

\* the risk score the resolved severity and hit type get with hit count c
RiskAtCount(c) ==
    _calculate_risk_score([severity |-> score_out.severity,
                           rule_type |-> score_in.pv.type,
                           violation_count |-> c])

\* C7: the risk score lies in [0, 100] (0 .. 10000 hundredths); with severity
\* and category fixed a larger hit count never gives a smaller score, and a
\* count of 0 or below scores as a count of 1.
C7_RiskScoreBounded ==
    score_out.done =>
        /\ score_out.risk_score \in 0..10000
        /\ \A c \in -1..MaxCount :
              c >= ScoredHitCount => RiskAtCount(c) >= score_out.risk_score
        /\ ScoredHitCount <= 0 => score_out.risk_score = RiskAtCount(1)

C7_Witness ==
    /\ score_out.done
    /\ score_in.rule = EmptyDict
    /\ score_in.pv = [type |-> "audit_logging", violation_count |-> 150]
    /\ score_out.risk_score = 3044
    /\ RiskAtCount(0) = 2500

-----------------------------------------------------------------------------
(* Claims on detect (SpecDetect) *)

GivenHits == get(scan_results, "potential_violations", <<>>)

\* table, rule id and hit type of a potential violation / of a violation
HitKey(pv) ==
    <<get(pv, "table", None), get(pv, "rule_id", None), get(pv, "type", None)>>
ViolationKey(v) == <<v.table, v.rule_id, v.rule_type>>

CountWhere(seq, Test(_)) == Cardinality({i \in 1..Len(seq) : Test(seq[i])})

\* C1: detect returns exactly one violation per potential violation that is
\* not a scan_error (same table, rule id and hit type) and none for a
\* scan_error, so returned violations + scan_error entries = entries given.
C1_OneViolationPerHit ==
    Len(detect_log) = 1 =>
        /\ Len(returned) + CountWhere(GivenHits, IsScanError) = Len(GivenHits)
        /\ \A v \in {returned[i] : i \in 1..Len(returned)} :
              v.rule_type # "scan_error"
        /\ \A n \in 1..Len(GivenHits) :
              ~IsScanError(GivenHits[n]) =>
                 CountWhere(returned,
                            LAMBDA v : ViolationKey(v) = HitKey(GivenHits[n]))
                   = CountWhere(GivenHits,
                                LAMBDA pv : HitKey(pv) = HitKey(GivenHits[n]))

C1_Witness ==
    /\ Len(detect_log) = 1
    /\ Len(GivenHits) = 3
    /\ IsScanError(GivenHits[2])
    /\ GivenHits[1] = GivenHits[3]
    /\ get(GivenHits[1], "rule_id", None) = "r3"
    /\ Len(returned) = 2

\* C8: the returned list is in non-increasing order of risk score, and
\* violations of equal score keep the order of their hits (uuids are drawn
\* in hit order, so among equal scores the ids ascend).
C8_SortedStable ==
    Len(detect_log) = 1 =>
        \A i, j \in 1..Len(returned) :
           i < j =>
              /\ returned[i].risk_score >= returned[j].risk_score
              /\ returned[i].risk_score = returned[j].risk_score
                    => returned[i].id < returned[j].id

C8_Witness ==
    /\ Len(detect_log) = 1
    /\ Len(returned) = 3
    /\ returned[1].risk_score = returned[2].risk_score
    /\ returned[1].id = 2 /\ returned[2].id = 3 /\ returned[3].id = 1
    /\ returned[3].risk_score < returned[2].risk_score
    /\ returned[1].table # returned[2].table

-----------------------------------------------------------------------------
(* Claims on repeated scoring (SpecRescore) *)

\* the detect call that drew uuid id
CallOf(id) ==
    CHOOSE c \in 1..Len(detect_log) :
        /\ detect_log[c].first_uuid < id
        /\ c < Len(detect_log) => id <= detect_log[c + 1].first_uuid

\* the potential violation a violation was scored from
HitOf(v) ==
    LET call == detect_log[CallOf(v.id)]
        pvs  == get(call.results, "potential_violations", <<>>)
        kept == SelectIdx(pvs, LAMBDA pv : ~IsScanError(pv), 1)
    IN  pvs[kept[v.id - call.first_uuid]]

SameBut(v1, v2, fields) ==
    \A f \in (DOMAIN v1 \cup DOMAIN v2) \ fields :
        f \in DOMAIN v1 /\ f \in DOMAIN v2 /\ v1[f] = v2[f]

AllDetected == {detected_violations[i] : i \in 1..Len(detected_violations)}

SeverityInputs(v) ==
    <<get(rules_map_get(rules, v.rule_id), "severity", None),
      get(HitOf(v), "type", None),
      get(HitOf(v), "violation_count", 1)>>

\* C9 as stated: two violations scored from the same hit with the same rule
\* agree in every field except id and detected_at.
C9_SameHitSameViolation ==
    \A v1, v2 \in AllDetected :
        HitOf(v1) = HitOf(v2) => SameBut(v1, v2, {"id", "detected_at"})

\* C9 as amended: two violations scored from the same hit with the same rule
\* agree in every field except id, detected_at and scan_id, and in scan_id as
\* well when their calls were given the same scan id; the severity is fixed by
\* the rule's declared severity, the hit type and the hit count.
C9_SameHitSameViolationButScanId ==
    \A v1, v2 \in AllDetected :
        /\ HitOf(v1) = HitOf(v2) =>
              /\ SameBut(v1, v2, {"id", "detected_at", "scan_id"})
              /\ detect_log[CallOf(v1.id)].results.scan_id
                    = detect_log[CallOf(v2.id)].results.scan_id
                 => v1.scan_id = v2.scan_id
        /\ SeverityInputs(v1) = SeverityInputs(v2) => v1.severity = v2.severity

C9_Witness ==
    /\ Len(detect_log) = 2
    /\ \E v1, v2, v3 \in AllDetected :
          /\ HitOf(v1) = EncryptionHit /\ HitOf(v2) = EncryptionHit
          /\ HitOf(v3) = EncryptionHit
          /\ CallOf(v1.id) = 1 /\ CallOf(v2.id) = 2 /\ CallOf(v3.id) = 2
          /\ v2.id # v3.id
          /\ v1.detected_at # v2.detected_at
          /\ v1.scan_id = v2.scan_id
          /\ Len(detect_log[2].results.potential_violations) = 3

-----------------------------------------------------------------------------
(* Claims on the column matcher (SpecMatch) *)

NoDuplicates(list) ==
    \A i, j \in 1..Len(list) : list[i] = list[j] => i = j

\* C10: the list _find_applicable_columns returns names no column twice,
\* also when the entity hints name the same column more than once.
C10_NoDuplicateColumns ==
    match_out.done => NoDuplicates(match_out.applicable)

-----------------------------------------------------------------------------
(* Claims on the scan (SpecScan) *)

\* the scan_error entries among the entries of a check
ScanErrors(entries) == SelectSeq(entries, IsScanError)

\* the tables of the call that the store has, in scan order
PresentTables ==
    SelectSeq(scan_run.tables_to_scan, LAMBDA t : InList(t, scan_run.all_tables))

\* every rule was checked against every present table, table by table
AllPairsChecked ==
    /\ Len(checked) = Len(PresentTables) * Len(scan_run.rules)
    /\ \A k \in 1..Len(PresentTables), j \in 1..Len(scan_run.rules) :
          LET done == checked[(k - 1) * Len(scan_run.rules) + j]
          IN  done.table = PresentTables[k] /\ done.rule = scan_run.rules[j]

\* the entries of all checks, in order
RECURSIVE EntriesFrom(_)
EntriesFrom(i) ==
    IF i > Len(checked) THEN <<>> ELSE checked[i].violations \o EntriesFrom(i + 1)

\* a running scan has a step to take
ScanCanStep ==
    \/ scan_run.table > Len(scan_run.tables_to_scan)
    \/ ~InList(ScanTable, scan_run.all_tables)
    \/ scan_run.rule > Len(scan_run.rules)
    \/ Answers(ScanRule, schema_columns(database, ScanTable), database.is_sql) # {}

\* how far a scan has come: tables done, then rules done in the table
ScanPosition == (scan_run.table - 1) * (Len(scan_run.rules) + 2) + scan_run.rule

\* what holds of the checks made so far when checkers that raise are isolated
CheckerExceptionIsolated ==
    /\ scan_run.pc # "raised"
    /\ scan_run.pc = "scanning" => ScanCanStep
    /\ \A i \in 1..Len(checked) :
          checked[i].raised =>
             /\ Len(checked[i].violations) = 1
             /\ checked[i].violations[1].type = "scan_error"
             /\ checked[i].violations[1].table = checked[i].table
             /\ checked[i].violations[1].rule_id = checked[i].rule.id
    /\ scan_run.pc = "returned" =>
          /\ AllPairsChecked
          /\ scan_results.potential_violations = EntriesFrom(1)

\* C2: when the checker run for a (table, rule) pair raises, the scan does not
\* stop: the check yields exactly one scan_error entry, carrying that table and
\* that rule's id, the scan goes on to every remaining rule and table, and it
\* returns a result that holds the entries of all checks.
C2_CheckerExceptionIsolated ==
    /\ []CheckerExceptionIsolated
    /\ [][scan_run.pc = "scanning" =>
            \/ scan_run'.pc = "scanning" /\ ScanPosition' > ScanPosition
            \/ scan_run'.pc = "returned"]_vars

C2_Witness ==
    /\ scan_run.pc = "returned"
    /\ \E i \in 1..Len(checked) :
          /\ checked[i].raised
          /\ checked[i].checker = "data_retention"
          /\ \E j \in (i + 1)..Len(checked) :
                /\ checked[j].table = checked[i].table
                /\ checked[j].violations # <<>>
                /\ ~checked[j].raised
          /\ checked[Len(checked)].table # checked[i].table

\* the date columns the retention checker queries on a table
DateColumns(table) ==
    ColumnsLike(schema_columns(database, table),
                <<"date", "time", "created", "updated", "modified">>)

\* C3 as stated: a failed query of a check leaves a scan_error entry for the
\* (table, rule) pair in the result.
C3_QueryFailureRecorded ==
    \A i \in 1..Len(checked) :
       checked[i].failed > 0 =>
          \E k \in 1..Len(checked[i].violations) :
             /\ checked[i].violations[k].type = "scan_error"
             /\ checked[i].violations[k].table = checked[i].table
             /\ checked[i].violations[k].rule_id = checked[i].rule.id

\* C3: a failed query is caught inside the checker (the retention checker
\* first retries once in another syntax) and the column or table is skipped
\* without any scan_error entry; a check has a scan_error entry only when its
\* checker raised, which no query failure makes it do; the scan goes on.
C3_QueryFailureSkipped ==
    /\ scan_run.pc # "raised"
    /\ \A i \in 1..Len(checked) :
          /\ checked[i].failed > 0 =>
                /\ ~checked[i].raised
                /\ ScanErrors(checked[i].violations) = <<>>
          /\ checked[i].failed <= checked[i].queries
          /\ (checked[i].checker = "data_retention" /\ ~checked[i].raised
                 /\ database.is_sql) =>
                LET retries == checked[i].queries - Len(DateColumns(checked[i].table))
                IN  /\ retries >= 0
                    /\ checked[i].failed >= retries
                    /\ checked[i].failed <= 2 * retries
          /\ ScanErrors(checked[i].violations) # <<>> <=> checked[i].raised
    /\ scan_run.pc = "returned" => AllPairsChecked

C3_Witness ==
    /\ scan_run.pc = "returned"
    /\ \E i \in 1..Len(checked) :
          /\ checked[i].failed > 0
          /\ checked[i].checker = "data_encryption"
          /\ \E j \in (i + 1)..Len(checked) :
                /\ checked[j].checker = "data_retention"
                /\ checked[j].failed = 1
                /\ checked[j].violations # <<>>

\* C5: a (table, rule) pair whose rule matches no column of the table and has
\* no sql_condition runs no checker, issues no query and adds no entry, hit or
\* scan_error, to the result.
C5_NotApplicableSkipped ==
    \A i \in 1..Len(checked) :
       (/\ _find_applicable_columns(checked[i].rule,
                                    schema_columns(database, checked[i].table)) = <<>>
        /\ ~Truthy(get(checked[i].rule, "sql_condition", None)))
       => /\ checked[i].checker = "none"
          /\ checked[i].queries = 0
          /\ checked[i].violations = <<>>

C5_Witness ==
    \E i \in 1..Len(checked) :
       /\ checked[i].rule = AuditRule
       /\ checked[i].table = "orders"
       /\ checked[i].applicable = <<>>
       /\ checked[i].checker = "none"
       /\ i < Len(checked)

-----------------------------------------------------------------------------
(* Claims on the agent (Spec) *)

\* C4: scan_for_violations called while no database is successfully connected
\* (none was ever connected, or the last connect_database returned false)
\* raises at once: no scan runs in such a state, and the agent's violations,
\* the engine's detected_violations and the scan history stay as they are.
C4_NoBackendRaises ==
    /\ [](agent_pc = "scanning" => last_connect = "true")
    /\ [][(last_connect # "true" /\ last_connect' = last_connect)
            => UNCHANGED <<violations, detected_violations, scan_history>>]_vars

-----------------------------------------------------------------------------
(* Further claims on the scan (SpecScan) *)

\* C11: for an explicit table list, a requested table that the backend does
\* not enumerate is skipped without raising: it adds no entry and is not in
\* tables_scanned; every requested table that is present is scanned; and
\* tables_scanned holds only tables of the backend.
C11_AbsentTablesSkipped ==
    /\ scan_run.pc # "raised"
    /\ \A i \in 1..Len(scan_run.tables_scanned) :
          InList(scan_run.tables_scanned[i], get_tables(database))
    /\ \A i \in 1..Len(checked) :
          /\ InList(checked[i].table, get_tables(database))
          /\ \A k \in 1..Len(checked[i].violations) :
                InList(checked[i].violations[k].table, get_tables(database))
    /\ scan_run.pc = "returned" =>
          /\ scan_run.tables_scanned = PresentTables
          /\ AllPairsChecked
          /\ \A i \in 1..Len(scan_run.tables_to_scan) :
                InList(scan_run.tables_to_scan[i], get_tables(database))
                   <=> InList(scan_run.tables_to_scan[i], scan_run.tables_scanned)

C11_Witness ==
    /\ scan_run.pc = "returned"
    /\ scan_run.tables_to_scan = <<"orders", "missing", "users">>
    /\ scan_run.tables_scanned = <<"orders", "users">>
    /\ \E i \in 1..Len(checked) :
          checked[i].table = "users" /\ checked[i].violations # <<>>

-----------------------------------------------------------------------------
(* Claims on the scenarios (SpecScenario) *)

\* the entries the returned scan result holds
ScanEntries == scan_results.potential_violations

ScenarioReturned(rule, table) ==
    /\ scan_run.pc = "returned"
    /\ rules = <<rule>>
    /\ database.tables = <<table>>

\* C12: the scan of a table whose one date-like column holds a row dated 120
\* days ago and a row dated 30 days ago, under the scenario's retention rule
\* (data_retention, 90 days, nothing else), returns exactly one entry: a
\* data_retention hit with violation_count 1.
C12_RetentionScenarioHit ==
    ScenarioReturned(ScenarioRetentionRule, EventsTable(<<120, 30>>)) =>
       /\ Len(ScanEntries) = 1
       /\ ScanEntries[1].type = "data_retention"
       /\ ScanEntries[1].violation_count = 1

\* C13: the scan of a table with the columns password and api_key, under the
\* scenario's access-control rule (data_access, nothing else), returns exactly
\* one data_access hit for the pair, listing both columns, with
\* requires_review true.
C13_AccessScenarioHit ==
    ScenarioReturned(ScenarioAccessRule, AccountsTable) =>
       /\ Len(ScanEntries) = 1
       /\ ScanEntries[1].type = "data_access"
       /\ ScanEntries[1].columns = <<"password", "api_key">>
       /\ ScanEntries[1].requires_review

\* the hits of a check on a column
HitsOn(done, col) ==
    SelectSeq(done.violations, LAMBDA hit : get(hit, "column", None) = col)

\* C14: a check by the encryption checker holds at most one hit per column of
\* the table, and a column named ssn whose first sampled value is a string of
\* 9 digits has exactly one, however many sampled values are plaintext.
C14_OneEncryptionHitPerColumn ==
    \A i \in 1..Len(checked) :
       checked[i].checker = "data_encryption" =>
          LET columns == schema_columns(database, checked[i].table)
          IN  \A k \in 1..Len(columns) :
                 /\ Len(HitsOn(checked[i], columns[k])) <= 1
                 /\ (/\ columns[k] = "ssn"
                     /\ InList("ssn", checked[i].applicable)
                     /\ StoredTable(database, checked[i].table).data.ssn[1]
                           = "123456789")
                    => Len(HitsOn(checked[i], "ssn")) = 1

\* the names that make a column geography-like
GeographyWords == <<"country", "region", "location", "address", "city", "state">>

\* C22: under a geographic-restriction rule every geography-like column of
\* the table (its lower-cased name contains country, region, location,
\* address, city or state) has exactly one hit, with requires_review true,
\* that lists all the distinct values of the column, up to 50 of them
C22_GeographyColumnsAlwaysReported ==
    \A i \in 1..Len(checked) :
       get(checked[i].rule, "type", "other") = "geographic_restriction" =>
          LET columns == ColumnsLike(schema_columns(database, checked[i].table),
                                     GeographyWords)
              stored == StoredTable(database, checked[i].table)
          IN  \A k \in 1..Len(columns) :
                 LET hits == HitsOn(checked[i], columns[k])
                 IN  /\ Len(hits) = 1
                     /\ hits[1].requires_review
                     /\ hits[1].unique_regions
                           = Limit(Distinct(stored.data[columns[k]]), 50)

-----------------------------------------------------------------------------
(* Claims about the records detect returns and the state it touches        *)

ReviewFields == {"explanation", "remediation", "review_status"}

\* C15: every violation detect returns carries the keys explanation,
\* remediation and review_status, each present with the value None
C15_ReviewFieldsPresentNull ==
    \A i \in 1..Len(returned) :
        \A f \in ReviewFields :
            /\ f \in DOMAIN returned[i]
            /\ returned[i][f] = None

\* a step of detect
DetectStep == detect_log' # detect_log

\* C17: every violation detect returns has status open, and the ids of all
\* the violations an engine has produced, over all its detect calls and for
\* identical hits too, are pairwise distinct
C17_OpenAndDistinctIds ==
    /\ \A i \in 1..Len(returned) : returned[i].status = "open"
    /\ \A i, j \in 1..Len(detected_violations) :
          i # j => detected_violations[i].id # detected_violations[j].id
    /\ \A i, j \in 1..Len(returned) :
          i # j => returned[i].id # returned[j].id

\* two detect calls have been made and the engine holds two violations of
\* the same hit (same rule, table, column and type)
C17_Witness ==
    /\ Len(detect_log) = MaxDetectCalls
    /\ \E i, j \in 1..Len(detected_violations) :
          /\ i < j
          /\ detected_violations[i].rule_id = detected_violations[j].rule_id
          /\ detected_violations[i].table = detected_violations[j].table
          /\ detected_violations[i].column = detected_violations[j].column
          /\ detected_violations[i].rule_type = detected_violations[j].rule_type
          /\ detected_violations[i].scan_id = detected_violations[j].scan_id
    /\ \E i \in 1..Len(returned) : returned[i].status = "open"

\* C18: detect changes no state at all: the scan result with its scan_error
\* entries, the rules and the state the engine retains are as before the call
C18_DetectSideEffectFree ==
    [][DetectStep => UNCHANGED <<scan_results, rules, detected_violations>>]_vars

\* C18 (amended): detect leaves the scan result and the rules unchanged, and
\* of the state the engine retains it changes detected_violations only, by
\* appending the violations it returns
C18_DetectAppendsOnly ==
    [][DetectStep =>
         /\ UNCHANGED <<scan_results, rules>>
         /\ detected_violations' = detected_violations \o returned']_vars

\* a second detect call on a scan result holding a scan_error entry has
\* returned violations, and the engine holds those of the first call as well
C18_Witness ==
    /\ Len(detect_log) = MaxDetectCalls
    /\ returned # <<>>
    /\ Len(detected_violations) > Len(returned)
    /\ \E i \in 1..Len(scan_results.potential_violations) :
          IsScanError(scan_results.potential_violations[i])

-----------------------------------------------------------------------------
(* Claims about the column matcher                                         *)

\* the column an entity hint names
HintColumn(entity) ==
    IF Contains(".", entity) THEN AfterFirstDot(entity) ELSE entity

\* C20: every column the matcher returns is a column of the table; the list
\* starts with the columns of the entity hints whose column part (after the
\* first '.', or the whole hint when bare) equals a table column name, in
\* hint order, hints naming no table column contributing nothing; what
\* follows are table columns whose lower-cased name contains a keyword of the
\* rule's type, and every such column is in the list
C20_MatcherReturnsTableColumns ==
    match_out.done =>
      LET columns == match_in.columns
          entities == get(match_in.rule, "entities", <<>>)
          applicable == match_out.applicable
          named == SelectIdx(entities,
                             LAMBDA e : InList(HintColumn(e), columns), 1)
          keywords == get(sensitive_patterns, get(match_in.rule, "type", ""), <<>>)
      IN  /\ \A k \in 1..Len(applicable) : InList(applicable[k], columns)
          /\ Len(applicable) >= Len(named)
          /\ \A k \in 1..Len(named) :
                applicable[k] = HintColumn(entities[named[k]])
          /\ \A i \in 1..Len(entities) :
                InList(HintColumn(entities[i]), applicable)
                   <=> InList(HintColumn(entities[i]), columns)
          /\ \A k \in (Len(named) + 1)..Len(applicable) :
                /\ \E w \in 1..Len(keywords) :
                      Contains(keywords[w], Lower(applicable[k]))
                /\ \A j \in 1..(k - 1) : applicable[j] # applicable[k]
          /\ \A c \in 1..Len(columns) :
                (\E w \in 1..Len(keywords) :
                    Contains(keywords[w], Lower(columns[c])))
                   => InList(columns[c], applicable)

\* a qualified hint and a hint naming no column of the table were given, and
\* a column found by keyword in its lower-cased name follows the hinted one
C20_Witness ==
    /\ match_out.done
    /\ match_in.columns = <<"id", "ssn", "Email">>
    /\ get(match_in.rule, "entities", <<>>) = <<"orders.total", "users.ssn">>
    /\ match_in.rule.type = "data_masking"
    /\ match_out.applicable = <<"ssn", "Email">>

-----------------------------------------------------------------------------
(* Claims about the dispatch of _check_rule_against_table                  *)

RuleType(e) == get(e.rule, "type", "other")
HasPredicate(e) == Truthy(get(e.rule, "sql_condition", None))

\* the count query of the generic-predicate checker answered a count above 0
PositiveCount(e) ==
    /\ e.predicate_answers # <<>>
    /\ e.predicate_answers[1].ok
    /\ e.predicate_answers[1].rows # <<>>
    /\ e.predicate_answers[1].rows[1] > 0

\* the generic-predicate checker ran on the pair: one count query, and one hit
\* carrying the predicate text and the count iff the count is above 0
GenericCheckerRan(e) ==
    /\ e.checker = "sql_condition"
    /\ e.queries = 1
    /\ ~e.raised
    /\ IF PositiveCount(e)
       THEN /\ Len(e.violations) = 1
            /\ e.violations[1].sql_condition = e.rule.sql_condition
            /\ e.violations[1].violation_count = e.predicate_answers[1].rows[1]
            /\ e.violations[1].type = RuleType(e)
       ELSE e.violations = <<>>

\* the dedicated checker of the rule's type ran on the pair, and no other
DedicatedCheckerRan(e) ==
    /\ e.checker = RuleType(e)
    /\ \A k \in 1..Len(e.violations) :
          /\ e.violations[k].type \in {RuleType(e), "scan_error"}
          /\ "sql_condition" \notin DOMAIN e.violations[k]

\* no checker ran on the pair and it produced no entry
PairSkipped(e) ==
    /\ e.checker = "none"
    /\ e.queries = 0
    /\ e.violations = <<>>

\* C19: in every (table, rule) check a rule of one of the seven dedicated
\* types runs exactly the checker of its type; a rule of another type with a
\* sql_condition runs the generic-predicate checker, which emits a hit with
\* the predicate text iff the count is above 0; a rule with neither is skipped
\* and produces no entry
C19_DispatchPolicy ==
    \A i \in 1..Len(checked) :
        LET e == checked[i]
        IN  IF RuleType(e) \in DedicatedTypes THEN DedicatedCheckerRan(e)
            ELSE IF HasPredicate(e) THEN GenericCheckerRan(e)
            ELSE PairSkipped(e)

\* C19 (amended): a rule of a dedicated type runs exactly the checker of its
\* type, and never the generic-predicate checker, provided the pair passed the
\* applicability test (a matched column or a sql_condition); when it matched
\* no column and has no sql_condition it is skipped like a rule with neither
\* type nor predicate.  The other two cases are as stated.
C19_DispatchPolicyBehindGate ==
    \A i \in 1..Len(checked) :
        LET e == checked[i]
        IN  IF RuleType(e) \in DedicatedTypes
            THEN IF e.applicable # <<>> \/ HasPredicate(e)
                 THEN DedicatedCheckerRan(e)
                 ELSE PairSkipped(e)
            ELSE IF HasPredicate(e) THEN GenericCheckerRan(e)
            ELSE PairSkipped(e)

\* one table was checked against a retention rule carrying a sql_condition
\* (its own checker ran), an age rule matching no column (skipped) and a
\* custom rule whose predicate counted rows (one hit with the predicate)
C19_Witness ==
    /\ scan_run.pc = "returned"
    /\ \E i, j, k \in 1..Len(checked) :
          /\ checked[i].table = checked[j].table
          /\ checked[j].table = checked[k].table
          /\ checked[i].rule = WordRetentionRule
          /\ checked[i].checker = "data_retention"
          /\ checked[j].rule = NoTextAgeRule
          /\ checked[j].checker = "none"
          /\ checked[k].rule = CustomRule
          /\ PositiveCount(checked[k])
          /\ Len(checked[k].violations) = 1

-----------------------------------------------------------------------------
(* Claims about the status of a violation under review                     *)

ViolationStatuses == {"open", "confirmed", "false_positive", "escalated"}

\* C16: after any sequence of scans and of review decisions taken through
\* ReviewWorkflow.process_decision, DataPolicyAgent.process_review_decision
\* or the route /violations/{id}/review, the status of every violation the
\* agent holds is one of open, confirmed, false_positive, escalated
C16_StatusAlwaysKnown ==
    \A i \in 1..Len(violations) : violations[i].status \in ViolationStatuses

-----------------------------------------------------------------------------
(* Claims about the count queries of the retention and age checkers        *)

\* the columns of a check's table whose lower-cased name holds one of words
ColumnsNamed(e, words) ==
    ColumnsLike(schema_columns(database, e.table), words)

\* the answer that decides a column of the retention checker: that of the
\* standard-SQL query, or of the alternate one when the first failed
RetentionAnswer(e, col) ==
    IF e.count_answers[col][1].ok THEN e.count_answers[col][1]
    ELSE e.count_answers[col][2]

\* the columns among cols whose deciding answer is a count above 0, in order
FlaggedColumns(cols, Deciding(_)) ==
    SelectSeq(cols, LAMBDA col : /\ Deciding(col).ok
                                 /\ Deciding(col).rows # <<>>
                                 /\ Deciding(col).rows[1] > 0)

\* C21: on a SQL store the retention checker issues, for every date column,
\* the standard-SQL count query and, iff that one fails, exactly one alternate
\* query; a column whose two queries fail yields no hit and no error, and
\* every other date column is decided by its own answers.  The age checker
\* issues one query per birth-date column, a failing one yielding nothing for
\* that column only.
C21_FailedCountQuerySkipsColumn ==
    \A i \in 1..Len(checked) :
        LET e == checked[i]
            date_columns ==
              ColumnsNamed(e, <<"date", "time", "created", "updated", "modified">>)
            birth_cols == ColumnsNamed(e, <<"birth", "dob", "date_of_birth">>)
            first_failed(cols) ==
              Cardinality({k \in 1..Len(cols) : ~e.count_answers[cols[k]][1].ok})
            both_failed(cols) ==
              Cardinality({k \in 1..Len(cols) :
                              /\ ~e.count_answers[cols[k]][1].ok
                              /\ ~e.count_answers[cols[k]][2].ok})
            flagged ==
              IF e.checker = "data_retention"
              THEN FlaggedColumns(date_columns, LAMBDA col : RetentionAnswer(e, col))
              ELSE FlaggedColumns(birth_cols, LAMBDA col : e.count_answers[col][1])
        IN  e.checker \in {"data_retention", "age_restriction"} /\ database.is_sql =>
              /\ ~e.raised /\ ~e.propagated
              /\ Len(e.violations) = Len(flagged)
              /\ \A k \in 1..Len(flagged) :
                    /\ e.violations[k].type = e.checker
                    /\ e.violations[k].column = flagged[k]
                    /\ e.violations[k].violation_count =
                          (IF e.checker = "data_retention"
                           THEN RetentionAnswer(e, flagged[k])
                           ELSE e.count_answers[flagged[k]][1]).rows[1]
              /\ IF e.checker = "data_retention"
                 THEN /\ e.queries = Len(date_columns) + first_failed(date_columns)
                      /\ e.failed = first_failed(date_columns)
                                       + both_failed(date_columns)
                 ELSE /\ e.queries = Len(birth_cols)
                      /\ e.failed = first_failed(birth_cols)

\* a retention check in which both queries on created_at failed and the
\* alternate query on updated_at, tried after a failed first one, counted
\* rows; and an age check in which the query on birthday failed and the one
\* on dob counted rows
C21_Witness ==
    /\ \E i \in 1..Len(checked) :
        /\ checked[i].checker = "data_retention"
        /\ database.is_sql
        /\ ~checked[i].count_answers["created_at"][1].ok
        /\ ~checked[i].count_answers["created_at"][2].ok
        /\ ~checked[i].count_answers["updated_at"][1].ok
        /\ checked[i].count_answers["updated_at"][2].ok
        /\ checked[i].queries = 4
        /\ Len(checked[i].violations) = 1
        /\ checked[i].violations[1].column = "updated_at"
    /\ \E i \in 1..Len(checked) :
        /\ checked[i].checker = "age_restriction"
        /\ database.is_sql
        /\ ~checked[i].count_answers["birthday"][1].ok
        /\ checked[i].queries = 2
        /\ Len(checked[i].violations) = 1
        /\ checked[i].violations[1].column = "dob"

-----------------------------------------------------------------------------
(* Claims about the framework tags of a violation                          *)

FrameworkNames == {"GDPR", "HIPAA", "CCPA", "PCI-DSS", "SOX", "COPPA"}

Tags(frameworks) == {frameworks[k] : k \in 1..Len(frameworks)}

\* C23: the framework tags of a violation depend on its category only:
\* age_restriction gives exactly COPPA, data_encryption exactly HIPAA and
\* PCI-DSS, consent exactly GDPR and CCPA; every tag is one of the six
\* frameworks, no tag is repeated, and the categories other and custom get
\* no tag
C23_FrameworksByCategory ==
    score_out.done =>
       LET category == get(score_in.pv, "type", None)
           tags == Tags(score_out.frameworks)
       IN  /\ tags \subseteq FrameworkNames
           /\ Cardinality(tags) = Len(score_out.frameworks)
           /\ score_out.frameworks = _map_to_frameworks([rule_type |-> category])
           /\ category = "age_restriction" => tags = {"COPPA"}
           /\ category = "data_encryption" => tags = {"HIPAA", "PCI-DSS"}
           /\ category = "consent" => tags = {"GDPR", "CCPA"}
           /\ category \in {"other", "custom"} => tags = {}

\* an age_restriction violation with a count above 100 under a rule that
\* declares a severity has been tagged
C23_Witness ==
    /\ score_out.done
    /\ score_in.pv.type = "age_restriction"
    /\ get(score_in.pv, "violation_count", 1) > 100
    /\ get(score_in.rule, "severity", None) = "low"
    /\ score_out.frameworks = <<"COPPA">>

-----------------------------------------------------------------------------
(* Claims about the order of the checks of a scan                          *)

\* the entries _scan_table returns for a table of a store with given rows
table_entries(db, table, rule_list) ==
    LET RECURSIVE From(_)
        From(i) ==
            IF i > Len(rule_list) THEN <<>>
            ELSE _check_rule_against_table(
                     table, rule_list[i], schema_columns(db, table),
                     StoredAnswers(db, table, rule_list[i],
                                   schema_columns(db, table)),
                     db.is_sql).violations \o From(i + 1)
    IN  From(1)

\* the potential_violations of scan(rule_list, tables) on that store
scan_entries(db, rule_list, tables) ==
    LET RECURSIVE From(_)
        From(i) ==
            IF i > Len(tables) THEN <<>>
            ELSE (IF InList(tables[i], get_tables(db))
                  THEN table_entries(db, tables[i], rule_list) ELSE <<>>)
                    \o From(i + 1)
    IN  From(1)

Reverse(list) == [i \in 1..Len(list) |-> list[Len(list) + 1 - i]]

Occurrences(x, list) == Cardinality({i \in 1..Len(list) : list[i] = x})

\* the two lists hold the same entries the same number of times
SameEntries(a, b) ==
    /\ Len(a) = Len(b)
    /\ \A i \in 1..Len(a) : Occurrences(a[i], a) = Occurrences(a[i], b)

\* C24: on a store whose rows do not change, the entries a scan returns are,
\* as a multiset, those of the scan of the same rules and tables taken in
\* any other order
C24_ScanOrderIndependent ==
    scan_run.pc = "returned" =>
       \A order \in {<<rule_list, scan_run.tables_to_scan>> :
                         rule_list \in Orders(scan_run.rules)}
                    \cup {<<Reverse(scan_run.rules), tables>> :
                             tables \in Orders(scan_run.tables_to_scan)} :
          SameEntries(scan_results.potential_violations,
                      scan_entries(database, order[1], order[2]))

\* a scan of four table names, one absent and one given twice, has returned
\* entries of two tables, a scan_error among them
C24_Witness ==
    /\ scan_run.pc = "returned"
    /\ Len(scan_run.tables_to_scan) = 4
    /\ \E i, j, k \in 1..Len(scan_results.potential_violations) :
          /\ scan_results.potential_violations[i].table = "people"
          /\ scan_results.potential_violations[j].table = "events"
          /\ scan_results.potential_violations[k].type = "scan_error"
    /\ scan_results.potential_violations
          # scan_entries(database, Reverse(scan_run.rules),
                         Reverse(scan_run.tables_to_scan))

-----------------------------------------------------------------------------
(* Claims about a scan followed by detect                                  *)

\* C25: the hits of the encryption checker carry no violation_count, and an
\* encryption violation whose paired rule declares no severity has
\* violation_count 1 and severity high, however many sampled values of the
\* column are plaintext
C25_EncryptionCountsOne ==
    /\ \A i \in 1..Len(scan_results.potential_violations) :
          scan_results.potential_violations[i].type = "data_encryption" =>
             "violation_count" \notin DOMAIN scan_results.potential_violations[i]
    /\ \A i \in 1..Len(detected_violations) :
          (/\ detected_violations[i].rule_type = "data_encryption"
           /\ ~Truthy(get(rules_map_get(rules, detected_violations[i].rule_id),
                          "severity", None)))
          => /\ detected_violations[i].violation_count = 1
             /\ detected_violations[i].severity = "high"

\* three plaintext values were sampled from people.ssn and the violation
\* detect made of the hit counts one and is high
C25_Witness ==
    /\ database.tables[1].name = "people"
    /\ Cardinality({k \in 1..Len(database.tables[1].data.ssn) :
                       is_plaintext("ssn", database.tables[1].data.ssn[k])}) = 3
    /\ \E i \in 1..Len(detected_violations) :
          /\ detected_violations[i].column = "ssn"
          /\ detected_violations[i].violation_count = 1
          /\ detected_violations[i].severity = "high"

-----------------------------------------------------------------------------
(* Claims about a declared severity                                        *)

SeverityLevels == {"critical", "high", "medium", "low"}

\* the capped score of the scored hit on a given base weight, in hundredths
ScoreOnBase(base_score) ==
    LET multiplier == get(RISK_MULTIPLIERS, score_in.pv.type, 10)
        score == base_score * multiplier * 10
                   + CountBonus(base_score * multiplier, ScoredHitCount)
    IN  IF score < 10000 THEN score ELSE 10000

\* C26: a non-empty severity declared by the rule is the violation's severity
\* verbatim, one of the four levels or not, and the risk score is computed on
\* the weight of that level (critical 100, high 75, medium 50, low 25), or on
\* 50 when the value is not a level; without a declared severity the
\* resolved severity is one of the four levels
C26_DeclaredSeverityVerbatim ==
    score_out.done =>
       IF Truthy(ScoredDeclared)
       THEN /\ score_out.severity = ScoredDeclared
            /\ score_out.risk_score =
                  ScoreOnBase(CASE ScoredDeclared = "critical" -> 100
                                [] ScoredDeclared = "high" -> 75
                                [] ScoredDeclared = "medium" -> 50
                                [] ScoredDeclared = "low" -> 25
                                [] OTHER -> 50)
       ELSE score_out.severity \in SeverityLevels

\* an audit-logging hit under a rule that declares the severity urgent: the
\* severity is urgent and the score that of a medium violation
C26_Witness ==
    /\ score_out.done
    /\ ScoredDeclared = "urgent"
    /\ score_in.pv = [type |-> "audit_logging", violation_count |-> 150]
    /\ score_out.severity = "urgent"
    /\ score_out.risk_score = 6088

-----------------------------------------------------------------------------
(* Claims about concurrent scan calls                                      *)

\* the calls that have returned a result
Completed == {i \in 1..Len(Calls) : Calls[i].pc = "returned"}

\* the history entries with the id and the number of entries of a call
EntriesOf(run) ==
    {k \in 1..Len(scan_history) :
        /\ scan_history[k].scan_id = run.scan_id
        /\ scan_history[k].violations = Len(run.potential_violations)}

\* the history holds one entry per completed call, with its id and its
\* number of potential violations
HistoryMatchesCompleted ==
    /\ Len(scan_history) = Cardinality(Completed)
    /\ \A i \in Completed :
          Cardinality(EntriesOf(Calls[i]))
             = Cardinality({j \in Completed :
                              /\ Calls[j].scan_id = Calls[i].scan_id
                              /\ Len(Calls[j].potential_violations)
                                    = Len(Calls[i].potential_violations)})

\* a step leaves the history as it is or appends one entry to it
HistoryAppended ==
    \/ scan_history' = scan_history
    \/ /\ Len(scan_history') = Len(scan_history) + 1
       /\ SubSeq(scan_history', 1, Len(scan_history)) = scan_history

\* C27: however the steps of concurrent scan calls on one scanner interleave,
\* scan_history holds exactly one entry per scan that has completed, with
\* that scan's id and number of potential violations; a scan that raises
\* adds none, and no step removes or rewrites an entry
C27_OneEntryPerCompletedScan ==
    []HistoryMatchesCompleted /\ [][HistoryAppended]_vars

\* two calls have completed, the one started later first; the other found a
\* violation
C27_Witness ==
    /\ Len(scan_history) = 2
    /\ scan_history[1].scan_id > scan_history[2].scan_id
    /\ scan_history[1].violations = 0
    /\ scan_history[2].violations = 1
    /\ \A i \in 1..Len(Calls) : Calls[i].pc = "returned"

\* C28: the scans a scanner has started have pairwise distinct scan ids
C28_DistinctScanIds ==
    \A i, j \in 1..Len(Calls) :
       (/\ i # j
        /\ Calls[i].pc \in {"scanning", "returned"}
        /\ Calls[j].pc \in {"scanning", "returned"})
       => Calls[i].scan_id # Calls[j].scan_id

-----------------------------------------------------------------------------
(* Claims about the completion of a review                                 *)

\* the decisions of a review that name a violation id
DecisionsOn(review, id) ==
    {k \in 1..Len(review.decisions) : InList(id, review.decisions[k].violation_ids)}

\* C29: a review has status completed only if the last decision on each of
\* its violation ids is an approve or a reject, so that none of its
\* violations is open or escalated
C29_CompletedMeansAllDecided ==
    \A r \in 1..Len(review_workflow.reviews) :
       LET review == review_workflow.reviews[r]
       IN  review.status = "completed" =>
              \A i \in 1..Len(review.violation_ids) :
                 LET on == DecisionsOn(review, review.violation_ids[i])
                 IN  /\ on # {}
                     /\ review.decisions[CHOOSE k \in on : \A j \in on : j <= k]
                           .decision \in {"approve", "reject"}

-----------------------------------------------------------------------------
(* Claims about approval requests                                          *)

\* C30: a request that has received a rejecting decision has status rejected
\* whatever was submitted or escalated afterwards, and a request has status
\* approved only if every level of required_levels has an approving record
\* in approvals_received
C30_ApprovalStatusTerminal ==
    \A a \in 1..Len(approvals) :
       /\ (\E k \in 1..Len(approvals[a].approvals_received) :
              ~approvals[a].approvals_received[k].approved)
          => approvals[a].status = "rejected"
       /\ approvals[a].status = "approved"
          => IdSet(approvals[a].required_levels)
                \subseteq ApprovedLevels(approvals[a].approvals_received)

====
